---- MODULE Spec2Model ----
(***************************************************************************)
(* Simulated betting engine of TronHashOddandEvenSize (latest generation   *)
(* of components/SimulatedBetting, src/unnamed/part_000 lines 1225-3084).  *)
(*                                                                         *)
(* Money is kept in hundredths of a unit (Scale), odds, multipliers and    *)
(* the Kelly fraction in hundredths too, so that 100 x 1.98 is the exact   *)
(* integer 19800.  Math.floor(x) on an amount is Floor(x).                 *)
(***************************************************************************)
EXTENDS Integers, Sequences, FiniteSets, TLC

VARIABLES
    balance,        \* useState balance
    bets,           \* useState bets, newest first
    config,         \* useState config (SimConfig)
    globalMetrics,  \* useState globalMetrics
    tasks,          \* useState tasks, in creation order
    allBlocks,      \* prop allBlocks, descending by height
    effectPending,  \* the engine effect is scheduled (a dependency changed)
    nextId,         \* source of fresh task ids (Date.now() in the code)
    used,           \* operator commands issued so far (bounds the run)
    last            \* record of the last step taken (history, for the properties)

vars == <<balance, bets, config, globalMetrics, tasks, allBlocks, effectPending, nextId, used, last>>

----------------------------------------------------------------------------
(* Bounds of the model *)

MaxNewBlocks == 2      \* heights the feed advances after the first fill
MaxGap == 2            \* the feed delivers the block at most this far above the head
MaxCommands == 3       \* operator commands (other than toggling a task) over a run
MaxKindCommands == 2   \* the same, in the runs that create every kind of task
MaxTasks == 2          \* tasks held at a time
MaxHeight == 45        \* heights given to the alignment functions
MaxSettled == 6        \* wagers of a task settled in a run of its progression alone
MaxOrphanCommands == 4 \* operator commands in the runs that delete tasks under a take-profit

----------------------------------------------------------------------------
(* Numbers *)

Scale == 100

Floor(x) == (x \div Scale) * Scale

U(n) == n * Scale

Max(a, b) == IF a > b THEN a ELSE b

Min(a, b) == IF a < b THEN a ELSE b

Abs(a) == IF a < 0 THEN -a ELSE a

\* JavaScript remainder: the sign follows the dividend
JsRem(a, b) == IF a >= 0 THEN a % b ELSE -((-a) % b)

\* quotient and remainder of a * n by d (a, n >= 0, d > 0), computed digit by
\* digit of a so that no intermediate product leaves the integer range
RECURSIVE MulDivRem(_, _, _)
MulDivRem(a, n, d) ==
    IF a < 10 THEN [q |-> (a * n) \div d, r |-> (a * n) % d]
    ELSE LET h == MulDivRem(a \div 10, n, d)
             t == 10 * h.r + (a % 10) * n
         IN  [q |-> 10 * h.q + t \div d, r |-> t % d]

\* floor(a * n / d)
MulDivFloor(a, n, d) == MulDivRem(a, n, d).q

----------------------------------------------------------------------------
(* Program constants *)

DefaultInitialBalance == U(10000)
DefaultOdds == 198
DefaultBaseBet == U(100)

Defaults ==
    [initialBalance |-> DefaultInitialBalance, odds |-> DefaultOdds,
     stopLoss |-> 0, takeProfit |-> 0, baseBet |-> DefaultBaseBet]

DefaultMetrics == [peakBalance |-> DefaultInitialBalance, maxDrawdown |-> 0]

FIB_SEQ == <<1, 1, 2, 3, 5, 8, 13, 21, 34, 55, 89, 144, 233, 377, 610>>

SEQ_1326 == <<1, 3, 2, 6>>

DefaultBeadRows == 6
AIWindow == 80
AIMinBlocks == 24
AISeqLen == 12
AIShouldPredictConf == 92
AIEntropyLimit == 40
AITaskThreshold == 92
AIFullScanThreshold == 94
DragonKellyConfidence == 60
DefaultKellyFraction == 20
WindowLimit == 3000

NoTask == 0

----------------------------------------------------------------------------
(* Rules (prop rules) *)

Rules ==
    << [id |-> 1, value |-> 1, startBlock |-> 0, beadRows |-> 2],
       [id |-> 2, value |-> 2, startBlock |-> 1, beadRows |-> 0],
       [id |-> 3, value |-> 20, startBlock |-> 50, beadRows |-> 0] >>

RuleIds == {Rules[i].id : i \in 1..Len(Rules)}

\* rules.find(r => r.id === id); only used when the id exists
RuleOf(id) == Rules[CHOOSE i \in 1..Len(Rules) : Rules[i].id = id]

getNextTargetHeight(currentHeight, step, startBlock) ==
    LET offset == startBlock
        diff == currentHeight - offset
        nextMultiplier == (diff \div Max(step, 1)) + 1
        nextHeight == offset + nextMultiplier * step
    IN  IF step <= 1 THEN currentHeight + 1
        ELSE IF nextHeight > currentHeight THEN nextHeight ELSE nextHeight + step

\* an alignment that forgets height >= rule.startBlock
checkRuleAlignmentAnyHeight(height, rule) ==
    IF rule.value <= 1 THEN TRUE
    ELSE IF rule.startBlock > 0
         THEN JsRem(height - rule.startBlock, rule.value) = 0
         ELSE JsRem(height, rule.value) = 0

checkRuleAlignment(height, rule) ==
    IF rule.value <= 1 THEN TRUE
    ELSE IF rule.startBlock > 0
         THEN height >= rule.startBlock /\ JsRem(height - rule.startBlock, rule.value) = 0
         ELSE JsRem(height, rule.value) = 0

----------------------------------------------------------------------------
(* Blocks *)

\* BetType
BetTypes == {"PARITY", "SIZE"}

Parities == {"ODD", "EVEN"}
Sizes == {"BIG", "SMALL"}

\* transformTronBlock: type and sizeType from the last digit of the hash
transformTronBlock(height, resultValue) ==
    [height |-> height,
     type |-> IF resultValue % 2 = 0 THEN "EVEN" ELSE "ODD",
     sizeType |-> IF resultValue >= 5 THEN "BIG" ELSE "SMALL"]

Take(s, n) == SubSeq(s, 1, Min(n, Len(s)))

BlockVal(b, type) == IF type = "PARITY" THEN b.type ELSE b.sizeType

RECURSIVE StreakCount(_, _, _, _)
StreakCount(blocks, type, firstVal, i) ==
    IF i > Len(blocks) THEN 0
    ELSE IF BlockVal(blocks[i], type) = firstVal
         THEN 1 + StreakCount(blocks, type, firstVal, i + 1)
         ELSE 0

\* a count of every block that shares the head's value, past the first mismatch
calculateStreakWholeList(blocks, type) ==
    IF Len(blocks) = 0 THEN [val |-> "null", count |-> 0]
    ELSE [val |-> BlockVal(blocks[1], type),
          count |-> Cardinality({i \in 1..Len(blocks) :
                                    BlockVal(blocks[i], type) = BlockVal(blocks[1], type)})]

calculateStreak(blocks, type) ==
    IF Len(blocks) = 0 THEN [val |-> "null", count |-> 0]
    ELSE [val |-> BlockVal(blocks[1], type),
          count |-> StreakCount(blocks, type, BlockVal(blocks[1], type), 1)]

RuleBlocks(blocks, rule) ==
    LET P(b) == checkRuleAlignment(b.height, rule) IN SelectSeq(blocks, P)

getBeadRowBlocks(blocks, rule, rowIdx) ==
    LET epoch == rule.startBlock
        interval == rule.value
        rows == IF rule.beadRows = 0 THEN DefaultBeadRows ELSE rule.beadRows
        P(b) == /\ (rule.value > 1 =>
                      /\ ~(rule.startBlock > 0 /\ b.height < rule.startBlock)
                      /\ ~(rule.startBlock > 0 /\ JsRem(b.height - rule.startBlock, rule.value) # 0)
                      /\ ~(rule.startBlock = 0 /\ JsRem(b.height, rule.value) # 0))
                /\ JsRem((b.height - epoch) \div interval, rows) = rowIdx
    IN  SelectSeq(blocks, P)

----------------------------------------------------------------------------
(* runAIAnalysis *)

Opposite(v) ==
    CASE v = "ODD" -> "EVEN" [] v = "EVEN" -> "ODD"
      [] v = "BIG" -> "SMALL" [] v = "SMALL" -> "BIG"

\* the symbol counted by oddCount / bigCount
Positive(type) == IF type = "PARITY" THEN "ODD" ELSE "BIG"

\* seq.startsWith('OEOEOE') etc.: the first six symbols follow the shape
StartsAlternating(seq, type) ==
    /\ Len(seq) >= 6
    /\ BlockVal(seq[2], type) # BlockVal(seq[1], type)
    /\ \A i \in {3, 5} : BlockVal(seq[i], type) = BlockVal(seq[1], type)
    /\ \A i \in {4, 6} : BlockVal(seq[i], type) = BlockVal(seq[2], type)

StartsPairs(seq, type) ==
    /\ Len(seq) >= 6
    /\ BlockVal(seq[3], type) # BlockVal(seq[1], type)
    /\ \A i \in {2, 5, 6} : BlockVal(seq[i], type) = BlockVal(seq[1], type)
    /\ BlockVal(seq[4], type) = BlockVal(seq[3], type)

checkPeriodicity(seq, type) ==
    IF StartsAlternating(seq, type)
    THEN [match |-> TRUE, val |-> Opposite(BlockVal(seq[1], type)), conf |-> 93]
    ELSE IF StartsPairs(seq, type)
    THEN [match |-> TRUE, val |-> Opposite(BlockVal(seq[1], type)), conf |-> 91]
    ELSE [match |-> FALSE, val |-> "null", conf |-> 0]

checkDensity(seq, type) ==
    IF Len(seq) >= 4 /\ \A i \in 2..4 : BlockVal(seq[i], type) = BlockVal(seq[1], type)
    THEN [match |-> TRUE, val |-> BlockVal(seq[1], type), conf |-> 95]
    ELSE [match |-> FALSE, val |-> "null", conf |-> 0]

\* deviation = |count/len - 0.5|, compared exactly: > 0.18 and > 0.12
getBayesianConf(count, len) ==
    IF Abs(2 * count - len) * 100 > 36 * len THEN 94
    ELSE IF Abs(2 * count - len) * 100 > 24 * len THEN 88
    ELSE 50

\* if (pPeriod.match) ... else if (pDensity.match) ... else if (pBayesConf > 90) ...
AxisPick(period, density, bayes, majority) ==
    IF period.match THEN [next |-> period.val, conf |-> period.conf]
    ELSE IF density.match THEN [next |-> density.val, conf |-> density.conf]
    ELSE IF bayes > 90 THEN [next |-> majority, conf |-> bayes]
    ELSE [next |-> "null", conf |-> 50]

\* the number of blocks counted by oddCount / bigCount
BiasCount(ruleBlocks, type) ==
    LET IsPos(b) == BlockVal(b, type) = Positive(type)
    IN  Len(SelectSeq(ruleBlocks, IsPos))

\* pBias > 0.5 ? 'EVEN' : 'ODD' and sBias > 0.5 ? 'SMALL' : 'BIG'
AgainstBias(count, len, type) ==
    IF 2 * count > len THEN Opposite(Positive(type)) ELSE Positive(type)

\* the per-axis part of runAIAnalysis, before the mutual exclusion
AxisSignal(ruleBlocks, type) ==
    AxisPick(checkPeriodicity(Take(ruleBlocks, AISeqLen), type),
             checkDensity(Take(ruleBlocks, AISeqLen), type),
             getBayesianConf(BiasCount(ruleBlocks, type), Len(ruleBlocks)),
             AgainstBias(BiasCount(ruleBlocks, type), Len(ruleBlocks), type))

\* the mutual exclusion of the two axes, and shouldPredict
AxisExclusion(p, s, entropy) ==
    LET keepP == p.conf > s.conf \/ (p.conf = s.conf /\ p.conf >= 90)
        keepS == s.conf > p.conf
        confP == IF keepP THEN p.conf ELSE 0
        confS == IF keepS THEN s.conf ELSE 0
    IN  [shouldPredict |-> (confP >= AIShouldPredictConf \/ confS >= AIShouldPredictConf)
                           /\ entropy < AIEntropyLimit,
         nextP |-> IF keepP THEN p.next ELSE "null", confP |-> confP,
         nextS |-> IF keepS THEN s.next ELSE "null", confS |-> confS]

\* runAIAnalysis on the aligned blocks of the rule
AnalysisOf(ruleBlocks, entropy) ==
    IF Len(ruleBlocks) < AIMinBlocks
    THEN [shouldPredict |-> FALSE, nextP |-> "null", confP |-> 0, nextS |-> "null", confS |-> 0]
    ELSE AxisExclusion(AxisSignal(ruleBlocks, "PARITY"), AxisSignal(ruleBlocks, "SIZE"), entropy)

runAIAnalysis(blocks, rule, entropy) ==
    AnalysisOf(Take(RuleBlocks(blocks, rule), AIWindow), entropy)

----------------------------------------------------------------------------
(* Staking progression: the switch on task.config.type in the settlement   *)

NewStats == [wins |-> 0, losses |-> 0, profit |-> 0, maxProfit |-> 0, maxLoss |-> 0,
             totalBetAmount |-> 0, peakProfit |-> 0, maxDrawdown |-> 0]

\* customSequence || [1]
CustomSeqOf(cfg) == cfg.customSequence

\* a Martingale that resets one loss late: nextLosses > maxCycle
MartingaleLateReset(task, isWin) ==
    LET st == task.state
    IN  IF ~isWin
        THEN IF st.consecutiveLosses + 1 > task.config.maxCycle
             THEN [currentBetAmount |-> task.baseBet, consecutiveLosses |-> 0,
                   sequenceIndex |-> st.sequenceIndex]
             ELSE [currentBetAmount |-> (st.currentBetAmount * task.config.multiplier) \div Scale,
                   consecutiveLosses |-> st.consecutiveLosses + 1,
                   sequenceIndex |-> st.sequenceIndex]
        ELSE [currentBetAmount |-> task.baseBet, consecutiveLosses |-> 0,
              sequenceIndex |-> st.sequenceIndex]

\* case 'MARTINGALE'
Martingale(task, isWin) ==
    LET st == task.state
    IN  IF ~isWin
        THEN IF st.consecutiveLosses + 1 >= task.config.maxCycle
             THEN [currentBetAmount |-> task.baseBet, consecutiveLosses |-> 0,
                   sequenceIndex |-> st.sequenceIndex]
             ELSE [currentBetAmount |-> (st.currentBetAmount * task.config.multiplier) \div Scale,
                   consecutiveLosses |-> st.consecutiveLosses + 1,
                   sequenceIndex |-> st.sequenceIndex]
        ELSE [currentBetAmount |-> task.baseBet, consecutiveLosses |-> 0,
              sequenceIndex |-> st.sequenceIndex]

AdvanceRaw(task, isWin) ==
    LET st == task.state
        cfg == task.config
        cur == st.currentBetAmount
        cl == st.consecutiveLosses
        si == st.sequenceIndex
        cSeq == CustomSeqOf(cfg)
    IN  CASE cfg.type = "MARTINGALE" -> Martingale(task, isWin)
          [] cfg.type = "DALEMBERT" ->
               IF ~isWin
               THEN [currentBetAmount |-> cur + cfg.step, consecutiveLosses |-> cl + 1, sequenceIndex |-> si]
               ELSE [currentBetAmount |-> Max(cur - cfg.step, task.baseBet),
                     consecutiveLosses |-> 0, sequenceIndex |-> si]
          [] cfg.type = "FIBONACCI" ->
               LET ni == IF ~isWin THEN Min(si + 1, Len(FIB_SEQ) - 1) ELSE Max(0, si - 2)
               IN  [currentBetAmount |-> task.baseBet * FIB_SEQ[ni + 1],
                    consecutiveLosses |-> cl, sequenceIndex |-> ni]
          [] cfg.type = "PAROLI" ->
               IF isWin
               THEN IF si + 1 >= 3
                    THEN [currentBetAmount |-> task.baseBet, consecutiveLosses |-> cl, sequenceIndex |-> 0]
                    ELSE [currentBetAmount |-> cur * 2, consecutiveLosses |-> cl, sequenceIndex |-> si + 1]
               ELSE [currentBetAmount |-> task.baseBet, consecutiveLosses |-> cl, sequenceIndex |-> 0]
          [] cfg.type = "1326" ->
               IF isWin
               THEN IF si + 1 >= Len(SEQ_1326)
                    THEN [currentBetAmount |-> task.baseBet, consecutiveLosses |-> cl, sequenceIndex |-> 0]
                    ELSE [currentBetAmount |-> task.baseBet * SEQ_1326[si + 2],
                          consecutiveLosses |-> cl, sequenceIndex |-> si + 1]
               ELSE [currentBetAmount |-> task.baseBet, consecutiveLosses |-> cl, sequenceIndex |-> 0]
          [] cfg.type = "CUSTOM" ->
               LET ni == IF ~isWin
                         THEN IF si + 1 >= Len(cSeq) THEN 0 ELSE si + 1
                         ELSE 0
               IN  [currentBetAmount |-> (task.baseBet * cSeq[ni + 1]) \div Scale,
                    consecutiveLosses |-> cl, sequenceIndex |-> ni]
          [] OTHER ->
               [currentBetAmount |-> task.baseBet, consecutiveLosses |-> cl, sequenceIndex |-> si]

\* a state update that forgets Math.floor
AdvanceUnfloored(task, isWin) ==
    IF task.config.type # "AI_KELLY"
    THEN AdvanceRaw(task, isWin)
    ELSE [currentBetAmount |-> task.baseBet, consecutiveLosses |-> 0, sequenceIndex |-> 0]

\* a D'Alembert whose win lowers the stake without stopping at the base stake
AdvanceBelowBase(task, isWin) ==
    IF task.config.type = "DALEMBERT" /\ isWin
    THEN [task.state EXCEPT !.currentBetAmount = Floor(@ - task.config.step),
                            !.consecutiveLosses = 0]
    ELSE IF task.config.type # "AI_KELLY"
    THEN LET r == AdvanceRaw(task, isWin)
         IN  [r EXCEPT !.currentBetAmount = Floor(r.currentBetAmount)]
    ELSE [currentBetAmount |-> task.baseBet, consecutiveLosses |-> 0, sequenceIndex |-> 0]

\* a Fibonacci whose win moves the index down by one
AdvanceOneDown(task, isWin) ==
    IF task.config.type = "FIBONACCI" /\ isWin
    THEN LET ni == Max(0, task.state.sequenceIndex - 1)
         IN  [task.state EXCEPT !.currentBetAmount = Floor(task.baseBet * FIB_SEQ[ni + 1]),
                                !.sequenceIndex = ni]
    ELSE IF task.config.type # "AI_KELLY"
    THEN LET r == AdvanceRaw(task, isWin)
         IN  [r EXCEPT !.currentBetAmount = Floor(r.currentBetAmount)]
    ELSE [currentBetAmount |-> task.baseBet, consecutiveLosses |-> 0, sequenceIndex |-> 0]

\* a Paroli that resets at the fourth consecutive win
AdvanceFourthWin(task, isWin) ==
    IF task.config.type = "PAROLI" /\ isWin
    THEN IF task.state.sequenceIndex + 1 >= 4
         THEN [task.state EXCEPT !.currentBetAmount = Floor(task.baseBet), !.sequenceIndex = 0]
         ELSE [task.state EXCEPT !.currentBetAmount = Floor(@ * 2), !.sequenceIndex = @ + 1]
    ELSE IF task.config.type # "AI_KELLY"
    THEN LET r == AdvanceRaw(task, isWin)
         IN  [r EXCEPT !.currentBetAmount = Floor(r.currentBetAmount)]
    ELSE [currentBetAmount |-> task.baseBet, consecutiveLosses |-> 0, sequenceIndex |-> 0]

\* a 1-3-2-6 whose loss steps back by one instead of starting over
AdvanceStepBack(task, isWin) ==
    IF task.config.type = "1326" /\ ~isWin
    THEN LET ni == Max(0, task.state.sequenceIndex - 1)
         IN  [task.state EXCEPT !.currentBetAmount = Floor(task.baseBet * SEQ_1326[ni + 1]),
                                !.sequenceIndex = ni]
    ELSE IF task.config.type # "AI_KELLY"
    THEN LET r == AdvanceRaw(task, isWin)
         IN  [r EXCEPT !.currentBetAmount = Floor(r.currentBetAmount)]
    ELSE [currentBetAmount |-> task.baseBet, consecutiveLosses |-> 0, sequenceIndex |-> 0]

\* the new task.state after one settled wager of the task
Advance(task, isWin) ==
    IF task.config.type # "AI_KELLY"
    THEN LET r == AdvanceRaw(task, isWin)
         IN  [r EXCEPT !.currentBetAmount = Floor(r.currentBetAmount)]
    ELSE [currentBetAmount |-> task.baseBet, consecutiveLosses |-> 0, sequenceIndex |-> 0]

\* a stats update that adds the stake to totalBetAmount for lost wagers only
UpdateStatsStakeOnLoss(stats, isWin, payout, amount) ==
    LET sessionProfit == (IF isWin THEN payout ELSE 0) - amount
        newTotalProfit == stats.profit + sessionProfit
        peak == Max(stats.peakProfit, newTotalProfit)
    IN  [wins |-> stats.wins + (IF isWin THEN 1 ELSE 0),
         losses |-> stats.losses + (IF isWin THEN 0 ELSE 1),
         profit |-> newTotalProfit,
         maxProfit |-> Max(stats.maxProfit, newTotalProfit),
         maxLoss |-> Min(stats.maxLoss, newTotalProfit),
         totalBetAmount |-> stats.totalBetAmount + (IF isWin THEN 0 ELSE amount),
         peakProfit |-> peak,
         maxDrawdown |-> Max(stats.maxDrawdown, peak - newTotalProfit)]

\* the task statistics after one settled wager of the task
UpdateStats(stats, isWin, payout, amount) ==
    LET sessionProfit == (IF isWin THEN payout ELSE 0) - amount
        newTotalProfit == stats.profit + sessionProfit
        peak == Max(stats.peakProfit, newTotalProfit)
    IN  [wins |-> stats.wins + (IF isWin THEN 1 ELSE 0),
         losses |-> stats.losses + (IF isWin THEN 0 ELSE 1),
         profit |-> newTotalProfit,
         maxProfit |-> Max(stats.maxProfit, newTotalProfit),
         maxLoss |-> Min(stats.maxLoss, newTotalProfit),
         totalBetAmount |-> stats.totalBetAmount + amount,
         peakProfit |-> peak,
         maxDrawdown |-> Max(stats.maxDrawdown, peak - newTotalProfit)]

----------------------------------------------------------------------------
(* Engine effect, part 1: settle pending bets and update task states       *)

\* allBlocks.find(b => b.height === h)
HasBlock(blocks, h) == \E i \in 1..Len(blocks) : blocks[i].height = h

BlockAt(blocks, h) == blocks[CHOOSE i \in 1..Len(blocks) : blocks[i].height = h]

\* nextTasks.findIndex(t => t.id === id), 0 when absent
TaskIndex(ts, id) ==
    IF \E i \in 1..Len(ts) : ts[i].id = id
    THEN CHOOSE i \in 1..Len(ts) : ts[i].id = id /\ \A j \in 1..(i - 1) : ts[j].id # id
    ELSE 0

\* a settlement that forgets the PENDING test
SettlesAny(bet, blocks) == HasBlock(blocks, bet.targetHeight)

\* the wager is looked at by the settlement and its block is in the window
Settles(bet, blocks) == bet.status = "PENDING" /\ HasBlock(blocks, bet.targetHeight)

IsWin(bet, targetBlock) ==
    IF bet.betType = "PARITY" THEN targetBlock.type = bet.prediction
    ELSE targetBlock.sizeType = bet.prediction

\* a payout taken from the odds configured now instead of the wager's
PayoutAtConfiguredOdds(bet, isWin) ==
    IF isWin THEN MulDivFloor(bet.amount, config.odds, Scale) ELSE 0

\* const payout = isWin ? bet.amount * bet.odds : 0
Payout(bet, isWin) == IF isWin THEN MulDivFloor(bet.amount, bet.odds, Scale) ELSE 0

\* a settlement that credits the payout but leaves the wager PENDING
SettleOneKeepPending(acc, bet, blocks) ==
    LET isWin == IsWin(bet, BlockAt(blocks, bet.targetHeight))
        bal == acc.bal + Payout(bet, isWin)
    IN  [acc EXCEPT !.bal = bal, !.peak = Max(@, bal), !.betsChanged = TRUE,
                    !.out = Append(@, [bet EXCEPT !.payout = Payout(bet, isWin),
                                                  !.balanceAfter = bal])]

\* a settlement that books the wager of a task it does not find on the first
\* task of the list
SettleOneOnFirstTask(acc, bet, blocks) ==
    LET isWin == IsWin(bet, BlockAt(blocks, bet.targetHeight))
        payout == Payout(bet, isWin)
        bal == acc.bal + payout
        peak == Max(acc.peak, bal)
        dd == peak - bal
        found == IF bet.taskId # NoTask THEN TaskIndex(acc.tasks, bet.taskId) ELSE 0
        ti == IF bet.taskId # NoTask /\ found = 0 /\ Len(acc.tasks) > 0 THEN 1 ELSE found
        task == acc.tasks[ti]
        newTask == [task EXCEPT !.stats = UpdateStats(task.stats, isWin, payout, bet.amount),
                                !.state = Advance(task, isWin)]
    IN  [bal |-> bal,
         peak |-> peak,
         maxDD |-> Max(acc.maxDD, dd),
         metricsChanged |-> acc.metricsChanged \/ dd > acc.maxDD,
         betsChanged |-> TRUE,
         tasksChanged |-> acc.tasksChanged \/ ti # 0,
         tasks |-> IF ti # 0 THEN [acc.tasks EXCEPT ![ti] = newTask] ELSE acc.tasks,
         out |-> Append(acc.out, [bet EXCEPT !.status = IF isWin THEN "WIN" ELSE "LOSS",
                                             !.payout = payout,
                                             !.balanceAfter = bal])]

\* one iteration of bets.map(...) on a wager that settles
SettleOne(acc, bet, blocks) ==
    LET isWin == IsWin(bet, BlockAt(blocks, bet.targetHeight))
        payout == Payout(bet, isWin)
        bal == acc.bal + payout
        peak == Max(acc.peak, bal)
        dd == peak - bal
        ti == IF bet.taskId # NoTask THEN TaskIndex(acc.tasks, bet.taskId) ELSE 0
        task == acc.tasks[ti]
        newTask == [task EXCEPT !.stats = UpdateStats(task.stats, isWin, payout, bet.amount),
                                !.state = Advance(task, isWin)]
    IN  [bal |-> bal,
         peak |-> peak,
         maxDD |-> Max(acc.maxDD, dd),
         metricsChanged |-> acc.metricsChanged \/ dd > acc.maxDD,
         betsChanged |-> TRUE,
         tasksChanged |-> acc.tasksChanged \/ ti # 0,
         tasks |-> IF ti # 0 THEN [acc.tasks EXCEPT ![ti] = newTask] ELSE acc.tasks,
         out |-> Append(acc.out, [bet EXCEPT !.status = IF isWin THEN "WIN" ELSE "LOSS",
                                             !.payout = payout,
                                             !.balanceAfter = bal])]

RECURSIVE SettleFrom(_, _, _, _)
SettleFrom(acc, bs, blocks, i) ==
    IF i > Len(bs) THEN acc
    ELSE CHOOSE r \in {SettleFrom(a, bs, blocks, i + 1) :
                          a \in {IF Settles(bs[i], blocks) THEN SettleOne(acc, bs[i], blocks)
                                 ELSE [acc EXCEPT !.out = Append(acc.out, bs[i])]}} : TRUE

\* step 1 of the effect on the state (bal, bs, ts, gm) and the window blocks
Settle(bal, bs, ts, gm, blocks) ==
    SettleFrom([bal |-> bal, peak |-> gm.peakBalance, maxDD |-> gm.maxDrawdown,
                metricsChanged |-> FALSE, betsChanged |-> FALSE, tasksChanged |-> FALSE,
                tasks |-> ts, out |-> <<>>],
               bs, blocks, 1)

----------------------------------------------------------------------------
(* Engine effect, part 2: place new bets for the active tasks              *)

HeadHeight(blocks) == blocks[1].height

\* finalBets.some(b => b.taskId === id && b.status === 'PENDING')
hasPending(bs, id) == \E i \in 1..Len(bs) : bs[i].taskId = id /\ bs[i].status = "PENDING"

\* a duplicate test copied from placeBet: it looks at the manual wagers only
isDupeManualOnly(bs, h, ruleId, id) ==
    \E i \in 1..Len(bs) : bs[i].targetHeight = h /\ bs[i].ruleId = ruleId /\ bs[i].taskId = NoTask

\* a duplicate test that forgets the source: any wager on the rule and height
isDupeAnySource(bs, h, ruleId, id) ==
    \E i \in 1..Len(bs) : bs[i].targetHeight = h /\ bs[i].ruleId = ruleId

\* finalBets.some(b => b.targetHeight === h && b.ruleId === ruleId && b.taskId === id)
isDupe(bs, h, ruleId, id) ==
    \E i \in 1..Len(bs) : bs[i].targetHeight = h /\ bs[i].ruleId = ruleId /\ bs[i].taskId = id

\* AI KELLY CALCULATION: f = (b*p - q)/b, amount = floor(balance * f * fraction),
\* then clamped to [config.baseBet, balance]
KellyAmount(bal, cfg, task, confidence) ==
    LET b_odds == cfg.odds - Scale
        num == b_odds * confidence - 100 * (100 - confidence)
        den == 100 * b_odds
        fPositive == den # 0 /\ ((num > 0 /\ den > 0) \/ (num < 0 /\ den < 0))
        fraction == IF task.config.kellyFraction = 0 THEN DefaultKellyFraction
                    ELSE task.config.kellyFraction
        raw == IF fPositive
               THEN U(MulDivFloor(bal, Abs(num) * fraction, Abs(den) * Scale * 100))
               ELSE cfg.baseBet
    IN  Min(Max(cfg.baseBet, raw), bal)

StakeFor(bal, cfg, task, confidence) ==
    IF task.config.type = "AI_KELLY" THEN KellyAmount(bal, cfg, task, confidence)
    ELSE Floor(task.state.currentBetAmount)

NoCandidate == [score |-> 0, ruleId |-> 0, type |-> "PARITY", target |-> "ODD", height |-> 0]

\* GLOBAL_AI_FULL_SCAN, one rule: the candidate after its analysis
FullScanCandidate(best, rule, analysis, nextH) ==
    LET b1 == IF analysis.nextP # "null" /\ analysis.confP > best.score
              THEN [score |-> analysis.confP, ruleId |-> rule.id, type |-> "PARITY",
                    target |-> analysis.nextP, height |-> nextH]
              ELSE best
    IN  IF ~analysis.shouldPredict THEN best
        ELSE IF analysis.nextS # "null" /\ analysis.confS > b1.score
             THEN [score |-> analysis.confS, ruleId |-> rule.id, type |-> "SIZE",
                   target |-> analysis.nextS, height |-> nextH]
             ELSE b1

\* GLOBAL_AI_FULL_SCAN: rules.forEach over the analysis of every rule
RECURSIVE FullScanFrom(_, _, _, _)
FullScanFrom(best, blocks, entropy, i) ==
    IF i > Len(Rules) THEN best
    ELSE FullScanFrom(FullScanCandidate(best, Rules[i], runAIAnalysis(blocks, Rules[i], entropy),
                                        getNextTargetHeight(HeadHeight(blocks), Rules[i].value,
                                                            Rules[i].startBlock)),
                      blocks, entropy, i + 1)

\* the candidate after the two streaks of one rule or bead row; live is the
\* test nextH > allBlocks[0].height of the bead road
StreakCandidate(best, rule, pStreak, sStreak, nextH, live) ==
    LET b1 == IF pStreak.count > best.score /\ live
              THEN [score |-> pStreak.count, ruleId |-> rule.id, type |-> "PARITY",
                    target |-> pStreak.val, height |-> nextH]
              ELSE best
    IN  IF sStreak.count > b1.score /\ live
        THEN [score |-> sStreak.count, ruleId |-> rule.id, type |-> "SIZE",
              target |-> sStreak.val, height |-> nextH]
        ELSE b1

\* the streaks of the blocks of one rule or bead row
StreaksOf(best, rule, rowBlocks, nextH, live) ==
    IF Len(rowBlocks) = 0 THEN best
    ELSE StreakCandidate(best, rule, calculateStreak(rowBlocks, "PARITY"),
                         calculateStreak(rowBlocks, "SIZE"), nextH, live)

\* GLOBAL_TREND_DRAGON, one rule
TrendCandidate(best, blocks, rule) ==
    StreaksOf(best, rule, RuleBlocks(blocks, rule),
              getNextTargetHeight(HeadHeight(blocks), rule.value, rule.startBlock), TRUE)

\* rule.beadRows || 6
BeadRowsOf(rule) == IF rule.beadRows = 0 THEN DefaultBeadRows ELSE rule.beadRows

\* lastH + rule.value * rows, for a row that has blocks
BeadNextHeight(rowBlocks, rule) ==
    IF Len(rowBlocks) = 0 THEN 0 ELSE rowBlocks[1].height + rule.value * BeadRowsOf(rule)

\* one row of the bead road of one rule
BeadRowCandidate(best, blocks, rule, rowBlocks) ==
    StreaksOf(best, rule, rowBlocks, BeadNextHeight(rowBlocks, rule),
              BeadNextHeight(rowBlocks, rule) > HeadHeight(blocks))

\* GLOBAL_BEAD_DRAGON, one rule: for (r = 0; r < rows; r++)
RECURSIVE BeadCandidate(_, _, _, _)
BeadCandidate(best, blocks, rule, r) ==
    IF r >= BeadRowsOf(rule) THEN best
    ELSE BeadCandidate(BeadRowCandidate(best, blocks, rule, getBeadRowBlocks(blocks, rule, r)),
                       blocks, rule, r + 1)

RECURSIVE DragonFrom(_, _, _, _)
DragonFrom(best, blocks, autoTarget, i) ==
    IF i > Len(Rules) THEN best
    ELSE IF autoTarget = "GLOBAL_TREND_DRAGON"
         THEN DragonFrom(TrendCandidate(best, blocks, Rules[i]), blocks, autoTarget, i + 1)
         ELSE IF autoTarget = "GLOBAL_BEAD_DRAGON"
              THEN DragonFrom(BeadCandidate(best, blocks, Rules[i], 0), blocks, autoTarget, i + 1)
              ELSE DragonFrom(best, blocks, autoTarget, i + 1)

IsGlobal(autoTarget) ==
    autoTarget \in {"GLOBAL_TREND_DRAGON", "GLOBAL_BEAD_DRAGON", "GLOBAL_AI_FULL_SCAN"}

IsFixed(autoTarget) == autoTarget \in {"FIXED_ODD", "FIXED_EVEN", "FIXED_BIG", "FIXED_SMALL"}

\* task.config.autoTarget.split('_')[1]
FixedTarget(autoTarget) ==
    CASE autoTarget = "FIXED_ODD" -> "ODD" [] autoTarget = "FIXED_EVEN" -> "EVEN"
      [] autoTarget = "FIXED_BIG" -> "BIG" [] autoTarget = "FIXED_SMALL" -> "SMALL"

NoBet == [bet |-> FALSE, ruleId |-> 0, type |-> "PARITY", target |-> "ODD", height |-> 0, confidence |-> 0]

\* the wager of a scan-mode task, from the best candidate of its scan
ScanChoice(task, bs, best, passes, confidence) ==
    IF passes /\ ~isDupe(bs, best.height, best.ruleId, task.id)
    THEN [bet |-> TRUE, ruleId |-> best.ruleId, type |-> best.type, target |-> best.target,
          height |-> best.height, confidence |-> confidence]
    ELSE NoBet

\* a full scan that bets from the threshold of the single-rule task
FullScanChoiceLowBar(task, bs, best) ==
    ScanChoice(task, bs, best, best.ruleId # 0 /\ best.score >= AITaskThreshold, best.score)

FullScanChoice(task, bs, best) ==
    ScanChoice(task, bs, best, best.ruleId # 0 /\ best.score >= AIFullScanThreshold, best.score)

DragonChoice(task, bs, best) ==
    ScanChoice(task, bs, best, best.score >= task.config.minStreak /\ best.ruleId # 0,
               DragonKellyConfidence)

\* a scan that forgets if (hasPending) return
ScanDecisionWhilePending(task, bs, blocks, entropy) ==
    IF task.config.autoTarget = "GLOBAL_AI_FULL_SCAN"
    THEN FullScanChoice(task, bs, FullScanFrom(NoCandidate, blocks, entropy, 1))
    ELSE DragonChoice(task, bs, DragonFrom(NoCandidate, blocks, task.config.autoTarget, 1))

\* what a scan-mode task decides to bet on, given the ledger so far
ScanDecision(task, bs, blocks, entropy) ==
    IF hasPending(bs, task.id) THEN NoBet
    ELSE IF task.config.autoTarget = "GLOBAL_AI_FULL_SCAN"
         THEN FullScanChoice(task, bs, FullScanFrom(NoCandidate, blocks, entropy, 1))
         ELSE DragonChoice(task, bs, DragonFrom(NoCandidate, blocks, task.config.autoTarget, 1))

\* a wager on the rule of a standard task
RuleBet(rule, nextHeight, type, target, conf) ==
    [bet |-> TRUE, ruleId |-> rule.id, type |-> type, target |-> target,
     height |-> nextHeight, confidence |-> conf]

\* autoTarget AI_PREDICTION
PredictionChoice(rule, nextHeight, analysis) ==
    IF ~analysis.shouldPredict THEN NoBet
    ELSE IF analysis.confP >= analysis.confS /\ analysis.confP >= AITaskThreshold
            /\ analysis.nextP # "null"
         THEN RuleBet(rule, nextHeight, "PARITY", analysis.nextP, analysis.confP)
    ELSE IF analysis.confS > analysis.confP /\ analysis.confS >= AITaskThreshold
            /\ analysis.nextS # "null"
         THEN RuleBet(rule, nextHeight, "SIZE", analysis.nextS, analysis.confS)
    ELSE NoBet

\* a choice that does not wait for the streak to reach minStreak
StreakChoiceAnyLength(task, rule, nextHeight, streak) ==
    IF task.config.autoTarget = "FOLLOW_LAST"
    THEN RuleBet(rule, nextHeight, task.config.targetType, streak.val, 60)
    ELSE IF task.config.autoTarget = "REVERSE_LAST"
         THEN RuleBet(rule, nextHeight, task.config.targetType, Opposite(streak.val), 60)
         ELSE NoBet

\* autoTarget FOLLOW_LAST and REVERSE_LAST, the rule having blocks
StreakChoice(task, rule, nextHeight, streak) ==
    IF streak.count >= task.config.minStreak
    THEN IF task.config.autoTarget = "FOLLOW_LAST"
         THEN RuleBet(rule, nextHeight, task.config.targetType, streak.val, 60)
         ELSE IF task.config.autoTarget = "REVERSE_LAST"
              THEN RuleBet(rule, nextHeight, task.config.targetType, Opposite(streak.val), 60)
              ELSE NoBet
    ELSE NoBet

\* the decision of a standard task whose rule exists
RuleDecision(task, bs, blocks, entropy, rule, nextHeight) ==
    IF isDupe(bs, nextHeight, rule.id, task.id) THEN NoBet
    ELSE IF task.config.autoTarget = "AI_PREDICTION"
         THEN PredictionChoice(rule, nextHeight, runAIAnalysis(blocks, rule, entropy))
    ELSE IF IsFixed(task.config.autoTarget)
         THEN RuleBet(rule, nextHeight,
                      IF FixedTarget(task.config.autoTarget) \in Parities THEN "PARITY" ELSE "SIZE",
                      FixedTarget(task.config.autoTarget), 60)
    ELSE IF Len(RuleBlocks(blocks, rule)) > 0
         THEN StreakChoice(task, rule, nextHeight,
                           calculateStreak(RuleBlocks(blocks, rule), task.config.targetType))
    ELSE NoBet

\* what a standard (single rule) task decides to bet on
StandardDecision(task, bs, blocks, entropy) ==
    IF task.ruleId \notin RuleIds THEN NoBet
    ELSE RuleDecision(task, bs, blocks, entropy, RuleOf(task.ruleId),
                      getNextTargetHeight(HeadHeight(blocks), RuleOf(task.ruleId).value,
                                          RuleOf(task.ruleId).startBlock))

Decision(task, bs, blocks, entropy) ==
    IF IsGlobal(task.config.autoTarget) THEN ScanDecision(task, bs, blocks, entropy)
    ELSE StandardDecision(task, bs, blocks, entropy)

\* the basic bankruptcy check of the placement loop
Bankrupt(bal, task) == bal < task.baseBet

NewBet(task, d, amount, cfg) ==
    [taskId |-> task.id, ruleId |-> d.ruleId, targetHeight |-> d.height, betType |-> d.type,
     prediction |-> d.target, amount |-> amount, odds |-> cfg.odds, status |-> "PENDING",
     payout |-> 0, balanceAfter |-> 0]

\* a placement that forgets currentBalance -= amount
PlaceWithNoDebit(acc, i, cfg, d) ==
    LET task == acc.tasks[i]
        amount == StakeFor(acc.bal, cfg, task, d.confidence)
        eval == [id |-> task.id, avail |-> acc.bal, required |-> task.state.currentBetAmount,
                 bet |-> d.bet, amount |-> IF d.bet THEN amount ELSE 0, deactivated |-> FALSE]
    IN  IF d.bet
        THEN [acc EXCEPT !.bets = <<NewBet(task, d, amount, cfg)>> \o @,
                         !.betsChanged = TRUE,
                         !.evals = Append(@, eval)]
        ELSE [acc EXCEPT !.evals = Append(@, eval)]

\* a placement that counts the wager placed into the task's progression
PlaceWithProgress(acc, i, cfg, d) ==
    LET task == acc.tasks[i]
        amount == StakeFor(acc.bal, cfg, task, d.confidence)
        eval == [id |-> task.id, avail |-> acc.bal, required |-> task.state.currentBetAmount,
                 bet |-> d.bet, amount |-> IF d.bet THEN amount ELSE 0, deactivated |-> FALSE]
    IN  IF d.bet
        THEN [acc EXCEPT !.bal = @ - amount,
                         !.bets = <<NewBet(task, d, amount, cfg)>> \o @,
                         !.betsChanged = TRUE,
                         !.tasks[i].state.sequenceIndex = @ + 1,
                         !.tasksChanged = TRUE,
                         !.evals = Append(@, eval)]
        ELSE [acc EXCEPT !.evals = Append(@, eval)]

\* a placement that stakes what the task's state was when the cycle began,
\* before the settlement advanced it
PlaceWithStaleStake(acc, i, cfg, d) ==
    LET task == acc.tasks[i]
        before == tasks[TaskIndex(tasks, task.id)]
        amount == StakeFor(acc.bal, cfg, before, d.confidence)
        eval == [id |-> task.id, avail |-> acc.bal, required |-> task.state.currentBetAmount,
                 bet |-> FALSE, amount |-> 0, deactivated |-> FALSE]
    IN  IF d.bet
        THEN [acc EXCEPT !.bal = @ - amount,
                         !.bets = <<NewBet(task, d, amount, cfg)>> \o @,
                         !.betsChanged = TRUE,
                         !.evals = Append(@, [eval EXCEPT !.bet = TRUE, !.amount = amount])]
        ELSE [acc EXCEPT !.evals = Append(@, eval)]

\* one iteration of nextTasks.forEach(task => ...), d being the task's decision
PlaceWith(acc, i, cfg, d) ==
    LET task == acc.tasks[i]
        amount == StakeFor(acc.bal, cfg, task, d.confidence)
        eval == [id |-> task.id, avail |-> acc.bal, required |-> task.state.currentBetAmount,
                 bet |-> FALSE, amount |-> 0, deactivated |-> FALSE]
    IN  IF d.bet
        THEN [acc EXCEPT !.bal = @ - amount,
                         !.bets = <<NewBet(task, d, amount, cfg)>> \o @,
                         !.betsChanged = TRUE,
                         !.evals = Append(@, [eval EXCEPT !.bet = TRUE, !.amount = amount])]
        ELSE [acc EXCEPT !.evals = Append(@, eval)]

\* a loop body that forgets if (!task.isActive) return
PlaceOneAnyActivity(acc, i, cfg, blocks, entropy) ==
    PlaceWith(acc, i, cfg, Decision(acc.tasks[i], acc.bets, blocks, entropy))

PlaceOne(acc, i, cfg, blocks, entropy) ==
    LET task == acc.tasks[i]
    IN  IF ~task.isActive THEN acc
        ELSE IF Bankrupt(acc.bal, task)
        THEN [acc EXCEPT !.tasks[i].isActive = FALSE, !.tasksChanged = TRUE,
                         !.evals = Append(@, [id |-> task.id, avail |-> acc.bal,
                                              required |-> task.state.currentBetAmount,
                                              bet |-> FALSE, amount |-> 0, deactivated |-> TRUE])]
        ELSE CHOOSE r \in {PlaceWith(acc, i, cfg, d) :
                              d \in {Decision(task, acc.bets, blocks, entropy)}} : TRUE

RECURSIVE PlaceFrom(_, _, _, _, _)
PlaceFrom(acc, i, cfg, blocks, entropy) ==
    IF i > Len(acc.tasks) THEN acc
    ELSE CHOOSE r \in {PlaceFrom(a, i + 1, cfg, blocks, entropy) :
                          a \in {PlaceOne(acc, i, cfg, blocks, entropy)}} : TRUE

\* profit and globalStop after the settlement
GlobalStop(bal, cfg) ==
    LET profit == bal - cfg.initialBalance
    IN  \/ (cfg.takeProfit > 0 /\ profit >= cfg.takeProfit)
        \/ (cfg.stopLoss > 0 /\ profit <= -cfg.stopLoss)

\* a placement step that forgets if (!globalStop)
PlaceIgnoringStop(s, cfg, blocks, entropy) ==
    PlaceFrom([bal |-> s.bal, bets |-> s.out, tasks |-> s.tasks,
               betsChanged |-> s.betsChanged, tasksChanged |-> s.tasksChanged,
               evals |-> <<>>], 1, cfg, blocks, entropy)

\* step 2 of the effect, from the result s of the settlement
Place(s, cfg, blocks, entropy) ==
    LET start == [bal |-> s.bal, bets |-> s.out, tasks |-> s.tasks,
                  betsChanged |-> s.betsChanged, tasksChanged |-> s.tasksChanged,
                  evals |-> <<>>]
        anyActive == \E i \in 1..Len(s.tasks) : s.tasks[i].isActive
    IN  IF ~GlobalStop(s.bal, cfg) THEN PlaceFrom(start, 1, cfg, blocks, entropy)
        ELSE IF anyActive
             THEN [start EXCEPT !.tasks = [i \in 1..Len(s.tasks) |-> [s.tasks[i] EXCEPT !.isActive = FALSE]],
                                !.tasksChanged = TRUE]
             ELSE start

----------------------------------------------------------------------------
(* Inputs *)

\* last digits of the block hash the feed delivers: ODD/SMALL and EVEN/BIG
ResultValues == {1, 6}

\* Math.round(Math.random() * 20 + 10)
EntropyRange == 10..30

BaseHeight == AIMinBlocks + 1

\* a history of BaseHeight blocks whose hashes all end in the same digit
UniformWindow(digit) == [i \in 1..BaseHeight |-> transformTronBlock(BaseHeight + 1 - i, digit)]

\* the histories the first fill of the window may load
Histories == {UniformWindow(7)}

Strategy(type, autoTarget) ==
    [type |-> type, autoTarget |-> autoTarget, targetType |-> "PARITY", multiplier |-> 200,
     maxCycle |-> 10, step |-> U(10), minStreak |-> 1,
     customSequence |-> <<U(1), U(2), U(4), U(8), U(17)>>, kellyFraction |-> 20]

\* drafts (draftRuleId, draftConfig) the operator creates tasks from
CoreDrafts == { <<1, Strategy("MARTINGALE", "FIXED_EVEN")>> }

KindDrafts ==
    { <<1, Strategy("FLAT", "FIXED_ODD")>>,
      <<2, Strategy("MARTINGALE", "FOLLOW_LAST")>>,
      <<1, Strategy("FLAT", "GLOBAL_TREND_DRAGON")>>,
      <<1, Strategy("FLAT", "GLOBAL_BEAD_DRAGON")>>,
      <<1, Strategy("AI_KELLY", "AI_PREDICTION")>>,
      <<1, Strategy("FLAT", "GLOBAL_AI_FULL_SCAN")>> }

\* values typed into the fields of the global risk configuration
CoreEdits ==
    { [f \in {"baseBet"} |-> U(5000)],
      [f \in {"baseBet"} |-> U(20000)],
      [f \in {"odds"} |-> 250] }

StopEdits ==
    { [f \in {"stopLoss"} |-> U(100)],
      [f \in {"takeProfit"} |-> U(50)],
      [f \in {"initialBalance"} |-> U(5000)] }

StopDrafts == { <<1, Strategy("FLAT", "FIXED_ODD")>> }

\* the rules (by position) and the buttons used on the manual panel
ManualRules == {1, 2}
ManualTargets == {"ODD", "BIG"}
CoreTargets == {"ODD"}

----------------------------------------------------------------------------
(* State machine *)

Init ==
    /\ balance = DefaultInitialBalance
    /\ bets = <<>>
    /\ config = Defaults
    /\ globalMetrics = DefaultMetrics
    /\ tasks = <<>>
    /\ allBlocks = <<>>
    /\ effectPending = TRUE
    /\ nextId = 1
    /\ used = 0
    /\ last = [op |-> "init"]

\* fillDataForInterval: the first load of the window
Fill ==
    /\ ~effectPending
    /\ Len(allBlocks) = 0
    /\ allBlocks' \in Histories
    /\ effectPending' = TRUE
    /\ last' = [op |-> "feed"]
    /\ UNCHANGED <<balance, bets, config, globalMetrics, tasks, nextId, used>>

\* App poll: new blocks are put in front of the window, which keeps the
\* WindowLimit highest; a height whose fetch failed is skipped
Poll ==
    /\ ~effectPending
    /\ Len(allBlocks) > 0
    /\ \E gap \in 1..MaxGap, digit \in ResultValues :
         /\ HeadHeight(allBlocks) + gap <= BaseHeight + MaxNewBlocks
         /\ allBlocks' = Take(<<transformTronBlock(HeadHeight(allBlocks) + gap, digit)>> \o allBlocks, WindowLimit)
    /\ effectPending' = TRUE
    /\ last' = [op |-> "feed"]
    /\ UNCHANGED <<balance, bets, config, globalMetrics, tasks, nextId, used>>

\* the random numbers a cycle can draw: runAIAnalysis is only called for an
\* active AI task
EntropyDraws(ts) ==
    IF \E i \in 1..Len(ts) :
          ts[i].isActive /\ ts[i].config.autoTarget \in {"AI_PREDICTION", "GLOBAL_AI_FULL_SCAN"}
    THEN EntropyRange ELSE {0}

\* the engine effect (useEffect on allBlocks, tasks, bets, config, balance, ...)
Cycle ==
    /\ effectPending
    /\ IF Len(allBlocks) = 0
       THEN /\ effectPending' = FALSE
            /\ last' = [op |-> "skip"]
            /\ UNCHANGED <<balance, bets, globalMetrics, tasks>>
       ELSE \E entropy \in EntropyDraws(tasks) :
            \E s \in {Settle(balance, bets, tasks, globalMetrics, allBlocks)} :
            \E p \in {Place(s, config, allBlocks, entropy)} :
              LET setMetrics == s.metricsChanged \/ s.peak # globalMetrics.peakBalance
              IN  /\ bets' = IF p.betsChanged THEN p.bets ELSE bets
                  /\ balance' = IF p.betsChanged THEN p.bal ELSE balance
                  /\ tasks' = IF p.tasksChanged THEN p.tasks ELSE tasks
                  /\ globalMetrics' = IF setMetrics
                                      THEN [peakBalance |-> s.peak, maxDrawdown |-> s.maxDD]
                                      ELSE globalMetrics
                  /\ effectPending' = (p.betsChanged \/ p.tasksChanged \/ setMetrics)
                  /\ last' = [op |-> "cycle", stop |-> GlobalStop(s.bal, config),
                              avail |-> s.bal, evals |-> p.evals,
                              after |-> last.op,
                              settled |-> s.betsChanged,
                              wasActive |-> \E i \in 1..Len(tasks) : tasks[i].isActive,
                              added |-> Len(bets') - Len(bets)]
    /\ UNCHANGED <<config, allBlocks, nextId, used>>

\* placeBet(..., 'MANUAL', rule): true iff the wager was accepted
placeBet(targetHeight, type, target, amount, rule) ==
    LET isDuplicate == \E i \in 1..Len(bets) :
                          /\ bets[i].targetHeight = targetHeight
                          /\ bets[i].ruleId = rule.id
                          /\ bets[i].taskId = NoTask
        newBet == [taskId |-> NoTask, ruleId |-> rule.id, targetHeight |-> targetHeight,
                   betType |-> type, prediction |-> target, amount |-> amount,
                   odds |-> config.odds, status |-> "PENDING", payout |-> 0, balanceAfter |-> 0]
    IN  IF isDuplicate
        THEN /\ UNCHANGED <<balance, bets, effectPending>>
             /\ last' = [op |-> "manual", ok |-> FALSE, amount |-> amount, avail |-> balance,
                         ruleId |-> rule.id, height |-> targetHeight]
        ELSE /\ balance' = balance - amount
             /\ bets' = <<newBet>> \o bets
             /\ effectPending' = TRUE
             /\ last' = [op |-> "manual", ok |-> TRUE, amount |-> amount, avail |-> balance,
                         ruleId |-> rule.id, height |-> targetHeight]

\* the four buttons of the manual betting panel
PlaceManual(RS, TS, budget) ==
    /\ ~effectPending
    /\ Len(allBlocks) > 0
    /\ used < budget
    /\ \E r \in RS, target \in TS :
         placeBet(getNextTargetHeight(HeadHeight(allBlocks), Rules[r].value, Rules[r].startBlock),
                  IF target \in Parities THEN "PARITY" ELSE "SIZE", target, config.baseBet, Rules[r])
    /\ used' = used + 1
    /\ UNCHANGED <<config, globalMetrics, tasks, allBlocks, nextId>>

createTask(draftRuleId, draftConfig) ==
    [id |-> nextId, ruleId |-> draftRuleId, config |-> draftConfig, baseBet |-> config.baseBet,
     state |-> [consecutiveLosses |-> 0,
                currentBetAmount |-> IF draftConfig.type = "CUSTOM"
                                     THEN (config.baseBet * draftConfig.customSequence[1]) \div Scale
                                     ELSE config.baseBet,
                sequenceIndex |-> 0],
     isActive |-> FALSE, stats |-> NewStats]

CreateTask(D, budget) ==
    /\ ~effectPending
    /\ used < budget
    /\ Len(tasks) < MaxTasks
    /\ \E draft \in D : tasks' = Append(tasks, createTask(draft[1], draft[2]))
    /\ nextId' = nextId + 1
    /\ used' = used + 1
    /\ effectPending' = TRUE
    /\ last' = [op |-> "command"]
    /\ UNCHANGED <<balance, bets, config, globalMetrics, allBlocks>>

ToggleTask ==
    /\ ~effectPending
    /\ \E i \in 1..Len(tasks) : tasks' = [tasks EXCEPT ![i].isActive = ~@]
    /\ effectPending' = TRUE
    /\ last' = [op |-> "toggle"]
    /\ UNCHANGED <<balance, bets, config, globalMetrics, allBlocks, nextId, used>>

startAllTasks ==
    /\ ~effectPending
    /\ tasks' = [i \in 1..Len(tasks) |-> [tasks[i] EXCEPT !.isActive = TRUE]]
    /\ effectPending' = TRUE
    /\ last' = [op |-> "toggle"]
    /\ UNCHANGED <<balance, bets, config, globalMetrics, allBlocks, nextId, used>>

stopAllTasks ==
    /\ ~effectPending
    /\ tasks' = [i \in 1..Len(tasks) |-> [tasks[i] EXCEPT !.isActive = FALSE]]
    /\ effectPending' = TRUE
    /\ last' = [op |-> "toggle"]
    /\ UNCHANGED <<balance, bets, config, globalMetrics, allBlocks, nextId, used>>

DeleteTask(budget) ==
    /\ ~effectPending
    /\ used < budget
    /\ \E i \in 1..Len(tasks) :
         tasks' = SubSeq(tasks, 1, i - 1) \o SubSeq(tasks, i + 1, Len(tasks))
    /\ used' = used + 1
    /\ effectPending' = TRUE
    /\ last' = [op |-> "command"]
    /\ UNCHANGED <<balance, bets, config, globalMetrics, allBlocks, nextId>>

\* an input of the global risk card: setConfig({...config, field: value})
SetConfig(E, budget) ==
    /\ ~effectPending
    /\ used < budget
    /\ \E e \in E :
         config' = [f \in DOMAIN config |-> IF f \in DOMAIN e THEN e[f] ELSE config[f]]
    /\ used' = used + 1
    /\ effectPending' = TRUE
    /\ last' = [op |-> "command"]
    /\ UNCHANGED <<balance, bets, globalMetrics, tasks, allBlocks, nextId>>

\* a reset that forgets setBets([])
resetAccountKeepLedger(budget) ==
    /\ ~effectPending
    /\ used < budget
    /\ balance' = Defaults.initialBalance
    /\ config' = Defaults
    /\ tasks' = <<>>
    /\ globalMetrics' = DefaultMetrics
    /\ used' = used + 1
    /\ effectPending' = TRUE
    /\ last' = [op |-> "reset", wagers |-> Len(bets), tasks |-> Len(tasks)]
    /\ UNCHANGED <<bets, allBlocks, nextId>>

\* last records how many wagers and tasks the reset found
resetAccount(budget) ==
    /\ ~effectPending
    /\ used < budget
    /\ balance' = Defaults.initialBalance
    /\ config' = Defaults
    /\ bets' = <<>>
    /\ tasks' = <<>>
    /\ globalMetrics' = DefaultMetrics
    /\ used' = used + 1
    /\ effectPending' = TRUE
    /\ last' = [op |-> "reset", wagers |-> Len(bets), tasks |-> Len(tasks)]
    /\ UNCHANGED <<allBlocks, nextId>>

Next ==
    \/ Fill
    \/ Poll
    \/ Cycle
    \/ PlaceManual(ManualRules, CoreTargets, MaxCommands)
    \/ CreateTask(CoreDrafts, MaxCommands)
    \/ ToggleTask
    \/ startAllTasks
    \/ stopAllTasks
    \/ SetConfig(CoreEdits, MaxCommands)
    \/ resetAccount(MaxCommands)

Spec == Init /\ [][Next]_vars

\* every kind of task, with manual wagers, under the default configuration
NextKinds ==
    \/ Fill
    \/ Poll
    \/ Cycle
    \/ PlaceManual(ManualRules, ManualTargets, MaxKindCommands)
    \/ CreateTask(KindDrafts, MaxKindCommands)
    \/ ToggleTask
    \/ startAllTasks
    \/ stopAllTasks
    \/ DeleteTask(MaxKindCommands)

SpecKinds == Init /\ [][NextKinds]_vars

\* the global stop: stop-loss and take-profit edits around one kind of task
NextStop ==
    \/ Fill
    \/ Poll
    \/ Cycle
    \/ CreateTask(StopDrafts, MaxCommands)
    \/ ToggleTask
    \/ startAllTasks
    \/ stopAllTasks
    \/ SetConfig(StopEdits, MaxCommands)

SpecStop == Init /\ [][NextStop]_vars

\* the reset: manual wagers and a task, the initial balance being edited
ResetEdits == { [f \in {"initialBalance"} |-> U(5000)] }

NextReset ==
    \/ Fill
    \/ Poll
    \/ Cycle
    \/ PlaceManual(ManualRules, CoreTargets, MaxCommands)
    \/ CreateTask(CoreDrafts, MaxCommands)
    \/ ToggleTask
    \/ startAllTasks
    \/ stopAllTasks
    \/ SetConfig(ResetEdits, MaxCommands)
    \/ resetAccount(MaxCommands)

SpecReset == Init /\ [][NextReset]_vars

\* values the number inputs accept without any check: a base stake of 0 or
\* below, a Martingale multiplier of 0, a negative D'Alembert step
InvalidEdits ==
    { [f \in {"baseBet"} |-> 0],
      [f \in {"baseBet"} |-> -U(100)] }

InvalidDrafts ==
    { <<1, [Strategy("MARTINGALE", "FIXED_EVEN") EXCEPT !.multiplier = 0]>>,
      <<1, [Strategy("DALEMBERT", "FIXED_EVEN") EXCEPT !.step = -U(10)]>> }

NextInvalid ==
    \/ Fill
    \/ Poll
    \/ Cycle
    \/ CreateTask(InvalidDrafts, MaxCommands)
    \/ ToggleTask
    \/ startAllTasks
    \/ stopAllTasks
    \/ SetConfig(InvalidEdits, MaxCommands)

SpecInvalid == Init /\ [][NextInvalid]_vars

\* deleted tasks: a task on a fixed target and a task that waits for a streak
\* of 50 are created, toggled and deleted while a take-profit may be set
OrphanDrafts ==
    { <<1, Strategy("FLAT", "FIXED_ODD")>>,
      <<1, [Strategy("FLAT", "FOLLOW_LAST") EXCEPT !.minStreak = 50]>> }

OrphanEdits == { [f \in {"takeProfit"} |-> U(50)] }

NextOrphan ==
    \/ Fill
    \/ Poll
    \/ Cycle
    \/ CreateTask(OrphanDrafts, MaxOrphanCommands)
    \/ ToggleTask
    \/ startAllTasks
    \/ stopAllTasks
    \/ DeleteTask(MaxOrphanCommands)
    \/ SetConfig(OrphanEdits, MaxOrphanCommands)

SpecOrphan == Init /\ [][NextOrphan]_vars

\* the AI_KELLY sizing: a Kelly task on a fixed target while the odds and the
\* base stake of the global configuration are edited
KellyDrafts == { <<1, Strategy("AI_KELLY", "FIXED_ODD")>> }

KellyEdits ==
    { [f \in {"baseBet"} |-> U(500)],
      [f \in {"odds"} |-> 150] }

NextKelly ==
    \/ Fill
    \/ Poll
    \/ Cycle
    \/ CreateTask(KellyDrafts, MaxCommands)
    \/ ToggleTask
    \/ startAllTasks
    \/ stopAllTasks
    \/ SetConfig(KellyEdits, MaxCommands)

SpecKelly == Init /\ [][NextKelly]_vars

\* commands issued between the render that scheduled the engine effect and the
\* effect's run. The handler's functional updates (prev => ...) are queued
\* first; the effect then runs on the values of the render it belongs to
\* (balance, bets, tasks as they are before the command) and queues
\* setBets(finalBets), setBalance(currentBalance) and setTasks(nextTasks), which
\* replace whatever the queue holds; hBal, hBets, hTasks are the values the
\* handler's updates give
RacedCommit(hBal, hBets, hTasks, command) ==
    /\ effectPending
    /\ IF Len(allBlocks) = 0
       THEN /\ bets' = hBets /\ balance' = hBal /\ tasks' = hTasks
            /\ UNCHANGED globalMetrics
       ELSE \E entropy \in EntropyDraws(tasks) :
            \E s \in {Settle(balance, bets, tasks, globalMetrics, allBlocks)} :
            \E p \in {Place(s, config, allBlocks, entropy)} :
              /\ bets' = IF p.betsChanged THEN p.bets ELSE hBets
              /\ balance' = IF p.betsChanged THEN p.bal ELSE hBal
              /\ tasks' = IF p.tasksChanged THEN p.tasks ELSE hTasks
              /\ globalMetrics' = IF s.metricsChanged \/ s.peak # globalMetrics.peakBalance
                                  THEN [peakBalance |-> s.peak, maxDrawdown |-> s.maxDD]
                                  ELSE globalMetrics
    /\ effectPending' = TRUE
    /\ last' = command
    /\ UNCHANGED <<config, allBlocks, nextId>>

\* placeBet(..., 'MANUAL', rule) while the effect is pending
RacedManual(RS, TS, budget) ==
    /\ Len(allBlocks) > 0
    /\ used < budget
    /\ \E r \in RS, target \in TS :
         LET h == getNextTargetHeight(HeadHeight(allBlocks), Rules[r].value, Rules[r].startBlock)
             newBet == [taskId |-> NoTask, ruleId |-> Rules[r].id, targetHeight |-> h,
                        betType |-> IF target \in Parities THEN "PARITY" ELSE "SIZE",
                        prediction |-> target, amount |-> config.baseBet,
                        odds |-> config.odds, status |-> "PENDING", payout |-> 0, balanceAfter |-> 0]
         IN  /\ ~isDupe(bets, h, Rules[r].id, NoTask)
             /\ RacedCommit(balance - config.baseBet, <<newBet>> \o bets, tasks,
                            [op |-> "raced", command |-> "manual", ruleId |-> Rules[r].id,
                             height |-> h, amount |-> config.baseBet,
                             wagers |-> Len(bets), avail |-> balance])
    /\ used' = used + 1

\* toggleTask(id) while the effect is pending
RacedToggle(budget) ==
    /\ used < budget
    /\ \E i \in 1..Len(tasks) :
         RacedCommit(balance, bets, [tasks EXCEPT ![i].isActive = ~@],
                     [op |-> "raced", command |-> "toggle", id |-> tasks[i].id,
                      isActive |-> ~tasks[i].isActive])
    /\ used' = used + 1

\* deleteTask(id) while the effect is pending
RacedDelete(budget) ==
    /\ used < budget
    /\ \E i \in 1..Len(tasks) :
         RacedCommit(balance, bets, SubSeq(tasks, 1, i - 1) \o SubSeq(tasks, i + 1, Len(tasks)),
                     [op |-> "raced", command |-> "delete", id |-> tasks[i].id])
    /\ used' = used + 1

NextRace ==
    \/ Fill
    \/ Poll
    \/ Cycle
    \/ PlaceManual(ManualRules, CoreTargets, MaxCommands)
    \/ CreateTask(CoreDrafts, MaxCommands)
    \/ ToggleTask
    \/ startAllTasks
    \/ stopAllTasks
    \/ RacedManual(ManualRules, CoreTargets, MaxCommands)
    \/ RacedToggle(MaxCommands)
    \/ RacedDelete(MaxCommands)

SpecRace == Init /\ [][NextRace]_vars

\* a base stake with a fraction (the input is read with parseFloat): manual
\* wagers and an AI_KELLY task while the base stake is 1.5, at the default
\* odds or at odds of 1.5 (where the Kelly fraction is not positive)
FractionEdits ==
    { [f \in {"baseBet"} |-> 150],
      [f \in {"odds"} |-> 150] }

NextFraction ==
    \/ Fill
    \/ Poll
    \/ Cycle
    \/ PlaceManual(ManualRules, CoreTargets, MaxCommands)
    \/ CreateTask(KellyDrafts, MaxCommands)
    \/ ToggleTask
    \/ startAllTasks
    \/ stopAllTasks
    \/ SetConfig(FractionEdits, MaxCommands)

SpecFraction == Init /\ [][NextFraction]_vars

\* the feed and the engine left to run: the poll timer keeps firing while
\* there are heights to fetch and a scheduled effect always runs, so both are
\* taken with weak fairness; wagers come from the manual panel and a task
NextLive ==
    \/ Fill
    \/ Poll
    \/ Cycle
    \/ PlaceManual(ManualRules, CoreTargets, MaxCommands)
    \/ CreateTask(CoreDrafts, MaxCommands)
    \/ ToggleTask

SpecLive ==
    /\ Init
    /\ [][NextLive]_vars
    /\ WF_vars(Fill)
    /\ WF_vars(Poll)
    /\ WF_vars(Cycle)

\* fixed-target tasks on both axes and on every rule, the rule that starts
\* above the head among them, with a take-profit and a base stake above the
\* bankroll among the edits
FixedDrafts ==
    { <<1, Strategy("FLAT", "FIXED_ODD")>>,
      <<1, Strategy("MARTINGALE", "FIXED_SMALL")>>,
      <<2, Strategy("FLAT", "FIXED_BIG")>>,
      <<2, Strategy("FLAT", "FIXED_EVEN")>>,
      <<3, Strategy("FLAT", "FIXED_ODD")>> }

FixedEdits ==
    { [f \in {"takeProfit"} |-> U(50)],
      [f \in {"baseBet"} |-> U(20000)] }

NextFixed ==
    \/ Fill
    \/ Poll
    \/ Cycle
    \/ CreateTask(FixedDrafts, MaxCommands)
    \/ ToggleTask
    \/ startAllTasks
    \/ stopAllTasks
    \/ SetConfig(FixedEdits, MaxCommands)

SpecFixed == Init /\ [][NextFixed]_vars

\* the component constructed from what localStorage holds: nothing, or what the
\* previous version of the component saved under the same keys (sim_v3_balance,
\* sim_v3_bets, sim_v3_tasks; no sim_v3_global_metrics): a task whose stats are
\* wins, losses and profit only, with the one wager it had lost or won
SavedTask(autoTarget, wins, losses, profit) ==
    [id |-> 1, ruleId |-> 1, config |-> Strategy("FLAT", autoTarget), baseBet |-> U(100),
     state |-> [consecutiveLosses |-> 0, currentBetAmount |-> U(100), sequenceIndex |-> 0],
     isActive |-> FALSE,
     stats |-> [wins |-> wins, losses |-> losses, profit |-> profit]]

SavedBet(prediction, status, payout) ==
    [taskId |-> 1, ruleId |-> 1, targetHeight |-> BaseHeight - 1, betType |-> "PARITY",
     prediction |-> prediction, amount |-> U(100), odds |-> DefaultOdds,
     status |-> status, payout |-> payout, balanceAfter |-> 0]

SavedStates ==
    { [balance |-> DefaultInitialBalance, bets |-> <<>>, tasks |-> <<>>],
      [balance |-> U(9900), bets |-> <<SavedBet("EVEN", "LOSS", 0)>>,
       tasks |-> <<SavedTask("FIXED_EVEN", 0, 1, -U(100))>>],
      [balance |-> U(10098), bets |-> <<SavedBet("ODD", "WIN", U(198))>>,
       tasks |-> <<SavedTask("FIXED_ODD", 1, 0, U(98))>>] }

\* the migration of a saved task: stat fields the record lacks get defaults
loadTask(t) ==
    LET st == t.stats
        has(f) == f \in DOMAIN st
    IN  [t EXCEPT !.stats =
            [wins |-> st.wins, losses |-> st.losses, profit |-> st.profit,
             maxProfit |-> IF has("maxProfit") THEN st.maxProfit ELSE 0,
             maxLoss |-> IF has("maxLoss") THEN st.maxLoss ELSE 0,
             totalBetAmount |-> IF has("totalBetAmount") THEN st.totalBetAmount ELSE 0,
             peakProfit |-> IF has("peakProfit") THEN st.peakProfit ELSE Max(0, st.profit),
             maxDrawdown |-> IF has("maxDrawdown") THEN st.maxDrawdown ELSE 0]]

InitLoad ==
    /\ \E saved \in SavedStates :
         /\ balance = saved.balance
         /\ bets = saved.bets
         /\ tasks = [i \in 1..Len(saved.tasks) |-> loadTask(saved.tasks[i])]
         /\ nextId = Len(saved.tasks) + 1
    /\ config = Defaults
    /\ globalMetrics = DefaultMetrics
    /\ allBlocks = <<>>
    /\ effectPending = TRUE
    /\ used = 0
    /\ last = [op |-> "init"]

NextLoad ==
    \/ Fill
    \/ Poll
    \/ Cycle
    \/ CreateTask(StopDrafts, MaxKindCommands)
    \/ ToggleTask

SpecLoad == InitLoad /\ [][NextLoad]_vars

----------------------------------------------------------------------------
(* The alignment functions on their own: a height and a rule are drawn,    *)
(* then checkRuleAlignment and getNextTargetHeight are applied to them     *)

\* the component's state while nothing but a helper function is exercised
Idle ==
    /\ balance = DefaultInitialBalance
    /\ bets = <<>>
    /\ config = Defaults
    /\ globalMetrics = DefaultMetrics
    /\ tasks = <<>>
    /\ allBlocks = <<>>
    /\ effectPending = FALSE
    /\ nextId = 1
    /\ used = 0

\* rules.value (step) and rules.startBlock (offset) of the rule editor
AlignSteps == {1, 2, 5, 20}
AlignOffsets == {0, 1, 5, 50}

AlignRule(step, offset) == [id |-> 1, value |-> step, startBlock |-> offset, beadRows |-> 0]

InitAlign ==
    /\ Idle
    /\ last \in {[op |-> "height", h |-> h, rule |-> AlignRule(step, offset)] :
                    h \in 0..MaxHeight, step \in AlignSteps, offset \in AlignOffsets}

\* checkRuleAlignment(h, rule) and getNextTargetHeight(h, rule.value, rule.startBlock)
AlignHeight ==
    /\ last.op = "height"
    /\ last' = [op |-> "aligned", h |-> last.h, rule |-> last.rule,
                isAligned |-> checkRuleAlignment(last.h, last.rule),
                nextAligned |-> getNextTargetHeight(last.h, last.rule.value, last.rule.startBlock)]
    /\ UNCHANGED <<balance, bets, config, globalMetrics, tasks, allBlocks, effectPending, nextId, used>>

SpecAlign == InitAlign /\ [][AlignHeight]_vars

----------------------------------------------------------------------------
(* The staking progression on its own: one task, and the state update of   *)
(* the settlement applied to it for a run of won and lost wagers           *)

\* draftConfig of the tasks: every strategy, the Martingale capped at 3
ProgressionDrafts ==
    { [Strategy("MARTINGALE", "FIXED_ODD") EXCEPT !.maxCycle = 3],
      Strategy("FLAT", "FIXED_ODD"),
      Strategy("DALEMBERT", "FIXED_ODD"),
      Strategy("FIBONACCI", "FIXED_ODD"),
      Strategy("PAROLI", "FIXED_ODD"),
      Strategy("1326", "FIXED_ODD"),
      Strategy("CUSTOM", "FIXED_ODD"),
      Strategy("AI_KELLY", "FIXED_ODD") }

InitProgression ==
    /\ balance = DefaultInitialBalance
    /\ bets = <<>>
    /\ config = Defaults
    /\ globalMetrics = DefaultMetrics
    /\ allBlocks = <<>>
    /\ effectPending = FALSE
    /\ nextId = 1
    /\ used = 0
    /\ \E draft \in ProgressionDrafts : tasks = <<createTask(1, draft)>>
    /\ last = [op |-> "created", losing |-> <<>>]

\* the settlement of one wager of the task, won or lost, staked at the task's
\* current stake: task.state after it; last.losing holds the stakes of the
\* losing run the wager is part of
Progress ==
    /\ used < MaxSettled
    /\ \E isWin \in BOOLEAN :
         /\ tasks' = [tasks EXCEPT ![1].state = Advance(tasks[1], isWin)]
         /\ last' = [op |-> "settled", isWin |-> isWin,
                     losing |-> IF isWin THEN <<>>
                                ELSE Append(last.losing, Floor(tasks[1].state.currentBetAmount))]
    /\ used' = used + 1
    /\ UNCHANGED <<balance, bets, config, globalMetrics, allBlocks, effectPending, nextId>>

SpecProgression == InitProgression /\ [][Progress]_vars

\* the Martingale on its own: multipliers of the 0.1-step input, cycle lengths
\* from 1 up, an integer base stake and one with a fraction
MartingaleMultipliers == {200, 150}
MartingaleCycles == {1, 3, 10}
MartingaleBases == {U(100), 250}

InitMartingale ==
    /\ balance = DefaultInitialBalance
    /\ bets = <<>>
    /\ config \in {[Defaults EXCEPT !.baseBet = b] : b \in MartingaleBases}
    /\ globalMetrics = DefaultMetrics
    /\ allBlocks = <<>>
    /\ effectPending = FALSE
    /\ nextId = 1
    /\ used = 0
    /\ \E m \in MartingaleMultipliers, c \in MartingaleCycles :
         tasks = <<createTask(1, [Strategy("MARTINGALE", "FIXED_ODD")
                                    EXCEPT !.multiplier = m, !.maxCycle = c])>>
    /\ last = [op |-> "created", losing |-> <<>>]

SpecMartingale == InitMartingale /\ [][Progress]_vars

\* the ladders on their own: D'Alembert with a whole step and a step of 0.5,
\* Fibonacci, Paroli, 1-3-2-6 and two custom sequences, each on an integer
\* base stake and on two with a fraction (2.5 and 2.75)
MaxLadderSettled == 16  \* wagers of a task settled in a run of its ladder alone

InitLadder ==
    /\ balance = DefaultInitialBalance
    /\ bets = <<>>
    /\ config \in {[Defaults EXCEPT !.baseBet = b] : b \in {U(100), 250, 275}}
    /\ globalMetrics = DefaultMetrics
    /\ allBlocks = <<>>
    /\ effectPending = FALSE
    /\ nextId = 1
    /\ used = 0
    /\ \E draft \in { Strategy("DALEMBERT", "FIXED_ODD"),
                      [Strategy("DALEMBERT", "FIXED_ODD") EXCEPT !.step = 50],
                      Strategy("FIBONACCI", "FIXED_ODD"),
                      Strategy("PAROLI", "FIXED_ODD"),
                      Strategy("1326", "FIXED_ODD"),
                      Strategy("CUSTOM", "FIXED_ODD"),
                      [Strategy("CUSTOM", "FIXED_ODD") EXCEPT !.customSequence = <<150, U(1)>>] } :
         tasks = <<createTask(1, draft)>>
    /\ last = [op |-> "created"]

\* the settlement of one wager of the task, won or lost: task.state after it;
\* last.before holds task.state as the settlement found it
Climb ==
    /\ used < MaxLadderSettled
    /\ \E isWin \in BOOLEAN :
         /\ tasks' = [tasks EXCEPT ![1].state = Advance(tasks[1], isWin)]
         /\ last' = [op |-> "settled", isWin |-> isWin, before |-> tasks[1].state]
    /\ used' = used + 1
    /\ UNCHANGED <<balance, bets, config, globalMetrics, allBlocks, effectPending, nextId>>

SpecLadder == InitLadder /\ [][Climb]_vars

\* the target selection on a loaded window: the window is one of four
\* histories (most recent block first, position 1), tasks that follow or
\* fade a streak or ask the predictor are created and switched on, and the
\* engine runs.  The histories: 48 blocks ending in 7; 48 blocks of
\* alternating parity; 30 blocks of alternating parity; 48 blocks of parity
\* in pairs; in the last three the sizes go BIG, BIG, SMALL
InitSignal ==
    LET Digit(odd, big) == IF odd THEN (IF big THEN 7 ELSE 1) ELSE (IF big THEN 6 ELSE 2)
        Uniform == [i \in 1..48 |-> transformTronBlock(49 - i, 7)]
        Alternating(n) ==
            [i \in 1..n |-> transformTronBlock(n + 1 - i, Digit(i % 2 = 1, i % 3 # 0))]
        Pairs ==
            [i \in 1..48 |-> transformTronBlock(49 - i, Digit(((i - 1) \div 2) % 2 = 0, i % 3 # 0))]
    IN  /\ balance = DefaultInitialBalance
        /\ bets = <<>>
        /\ config = Defaults
        /\ globalMetrics = DefaultMetrics
        /\ tasks = <<>>
        /\ allBlocks \in {Uniform, Alternating(48), Alternating(30), Pairs}
        /\ effectPending = TRUE
        /\ nextId = 1
        /\ used = 0
        /\ last = [op |-> "init"]

\* drafts of the tasks that follow or fade a streak or ask the predictor
SignalDrafts ==
    { <<1, [Strategy("FLAT", "FOLLOW_LAST") EXCEPT !.minStreak = 2]>>,
      <<1, [Strategy("FLAT", "REVERSE_LAST") EXCEPT !.minStreak = 3, !.targetType = "SIZE"]>>,
      <<2, Strategy("FLAT", "REVERSE_LAST")>>,
      <<3, Strategy("FLAT", "FOLLOW_LAST")>>,
      <<1, Strategy("FLAT", "AI_PREDICTION")>>,
      <<2, Strategy("FLAT", "AI_PREDICTION")>>,
      <<1, Strategy("FLAT", "GLOBAL_AI_FULL_SCAN")>> }

NextSignal ==
    \/ Cycle
    \/ CreateTask(SignalDrafts, MaxKindCommands)
    \/ ToggleTask

SpecSignal == InitSignal /\ [][NextSignal]_vars

\* calculateStreak on its own: a list of blocks, most recent first, is drawn
\* (one digit per combination of parity and size), then the streak of an axis
\* is computed from it
MaxStreakLen == 4   \* blocks in a list given to calculateStreak

InitStreak ==
    /\ balance = DefaultInitialBalance
    /\ bets = <<>>
    /\ config = Defaults
    /\ globalMetrics = DefaultMetrics
    /\ tasks = <<>>
    /\ effectPending = FALSE
    /\ nextId = 1
    /\ used = 0
    /\ \E n \in 0..MaxStreakLen :
         \E digits \in [1..n -> {1, 2, 6, 7}] :
             allBlocks = [i \in 1..n |-> transformTronBlock(n + 1 - i, digits[i])]
    /\ last = [op |-> "drawn"]

Streak ==
    /\ last.op = "drawn"
    /\ \E type \in BetTypes :
         last' = [op |-> "streak", type |-> type, result |-> calculateStreak(allBlocks, type)]
    /\ UNCHANGED <<balance, bets, config, globalMetrics, tasks, allBlocks, effectPending, nextId, used>>

SpecStreak == InitStreak /\ [][Streak]_vars

\* fetchWithRetry on its own.  last.frames is the chain of pending calls,
\* innermost last: each holds its retries and backoff and the place it waits
\* at ("fetch": its request is in flight; "retry429" and "retryCatch": it has
\* returned the promise of the recursive call made in the 429 branch of the
\* try block, or in the catch block).  last.outcomes lists what the requests
\* met, last.result is "pending" until the outermost promise settles
MaxRetries == 3   \* the retries argument of the outermost call

DefaultBackoff == 500

\* what a request can meet: a body without Error, HTTP 429, another status
\* that is not ok, a rejected fetch, a body with Error
FetchOutcomes == {"ok", "429", "http", "network", "apierror"}

InitFetch ==
    /\ Idle
    /\ \E retries \in 0..MaxRetries :
         last = [op |-> "fetch", retries |-> retries,
                 frames |-> <<[retries |-> retries, backoff |-> DefaultBackoff, at |-> "fetch"]>>,
                 outcomes |-> <<>>, result |-> "pending"]

\* a frame that makes its callee's rejection its own as if it had written
\* return await in the try block: the catch block sees it and tries again
rejectedAwaited(frame) ==
    IF frame.at = "retry429" /\ frame.retries > 0 THEN "retry" ELSE "reject"

\* what a frame does when the call whose promise it returned rejects: the
\* promise is returned without await, so neither the try block nor the catch
\* block sees the rejection
rejected(frame) == "reject"

\* the request of the innermost call settles and the call handles it
Request ==
    /\ last.op = "fetch"
    /\ last.result = "pending"
    /\ \E outcome \in FetchOutcomes :
         LET n == Len(last.frames)
             top == last.frames[n]
             again == Append([last.frames EXCEPT ![n].at =
                                 IF outcome = "429" THEN "retry429" ELSE "retryCatch"],
                             [retries |-> top.retries - 1, backoff |-> top.backoff * 2,
                              at |-> "fetch"])
         IN  /\ top.at = "fetch"
             /\ last' = [last EXCEPT
                           !.outcomes = Append(@, outcome),
                           !.frames = IF outcome = "ok" THEN <<>>
                                      ELSE IF top.retries > 0 THEN again
                                      ELSE SubSeq(@, 1, n - 1),
                           !.result = IF outcome = "ok" THEN "returned"
                                      ELSE IF top.retries > 0 THEN "pending"
                                      ELSE IF n = 1 THEN "thrown" ELSE "rejecting"]
    /\ UNCHANGED <<balance, bets, config, globalMetrics, tasks, allBlocks, effectPending, nextId, used>>

\* the rejection of a call reaches the call that returned its promise
Unwind ==
    /\ last.op = "fetch"
    /\ last.result = "rejecting"
    /\ LET n == Len(last.frames)
           top == last.frames[n]
       IN  IF rejected(top) = "retry"
           THEN last' = [last EXCEPT
                           !.frames = Append([@ EXCEPT ![n].at = "retryCatch"],
                                             [retries |-> top.retries - 1,
                                              backoff |-> top.backoff * 2, at |-> "fetch"]),
                           !.result = "pending"]
           ELSE last' = [last EXCEPT !.frames = SubSeq(@, 1, n - 1),
                                     !.result = IF n = 1 THEN "thrown" ELSE "rejecting"]
    /\ UNCHANGED <<balance, bets, config, globalMetrics, tasks, allBlocks, effectPending, nextId, used>>

\* every request settles and every timer fires
SpecFetch == InitFetch /\ [][Request \/ Unwind]_vars /\ WF_vars(Request) /\ WF_vars(Unwind)

----------------------------------------------------------------------------
(* Properties *)

Settled(bet) == bet.status # "PENDING"

\* the wager that was the k-th to enter the ledger (wagers are only prepended)
FromEnd(bs, k) == bs[Len(bs) + 1 - k]

RECURSIVE StakeSum(_, _)
StakeSum(bs, i) == IF i > Len(bs) THEN 0 ELSE bs[i].amount + StakeSum(bs, i + 1)

RECURSIVE PayoutSum(_, _)
PayoutSum(bs, i) ==
    IF i > Len(bs) THEN 0
    ELSE (IF Settled(bs[i]) THEN bs[i].payout ELSE 0) + PayoutSum(bs, i + 1)

CountBy(bs, id) == Cardinality({i \in 1..Len(bs) : bs[i].taskId = id})

TaskOf(id) == tasks[TaskIndex(tasks, id)]

\* C1: the balance is what replaying the ledger from initialBalance gives:
\* initialBalance, less the stake of every wager, plus the payout of every
\* settled wager (cycles, manual wagers, task create/toggle/delete; the
\* configuration is left as it is after a reset)
BankrollReplay ==
    balance = config.initialBalance - StakeSum(bets, 1) + PayoutSum(bets, 1)

\* a won task wager and a manual wager are in the ledger
BankrollReplayWitness ==
    /\ \E i \in 1..Len(bets) : bets[i].taskId # NoTask /\ bets[i].status = "WIN"
    /\ \E j \in 1..Len(bets) : bets[j].taskId = NoTask
    /\ ~effectPending

\* C2: the ledger never holds two wagers with the same rule, target height
\* and source (the task, or NoTask for a manual wager)
NoDuplicate ==
    \A i, j \in 1..Len(bets) :
        i < j => ~ /\ bets[i].ruleId = bets[j].ruleId
                   /\ bets[i].targetHeight = bets[j].targetHeight
                   /\ bets[i].taskId = bets[j].taskId

\* a cycle has evaluated a task that had its wager on the next height already
\* and added nothing, the ledger holding a manual wager on the same rule and
\* height as the task's
NoDuplicateWitness ==
    /\ last.op = "cycle"
    /\ \E e \in 1..Len(last.evals) :
         /\ ~last.evals[e].bet
         /\ ~last.evals[e].deactivated
         /\ \E i, j \in 1..Len(bets) :
              /\ bets[i].taskId = last.evals[e].id
              /\ bets[i].status = "PENDING"
              /\ bets[j].taskId = NoTask
              /\ bets[j].ruleId = bets[i].ruleId
              /\ bets[j].targetHeight = bets[i].targetHeight

\* the payouts a settlement credits: those of the wagers it takes out of PENDING
RECURSIVE Credited(_, _, _)
Credited(bs, out, i) ==
    IF i > Len(bs) THEN 0
    ELSE (IF ~Settled(bs[i]) /\ Settled(out[i]) THEN out[i].payout ELSE 0) + Credited(bs, out, i + 1)

\* s is a settlement of the ledger bs at balance bal, t a settlement of s
SettledOnce(bal, bs, s, t) ==
    /\ t.bal = s.bal
    /\ t.out = s.out
    /\ t.tasks = s.tasks
    /\ ~t.betsChanged /\ ~t.tasksChanged
    /\ \A i \in 1..Len(bs) : Settled(bs[i]) => s.out[i] = bs[i]
    /\ s.bal = bal + Credited(bs, s.out, 1)

SettleAgain(s, blocks) ==
    Settle(s.bal, s.out, s.tasks, [peakBalance |-> s.peak, maxDrawdown |-> s.maxDD], blocks)

\* C3: settling the result of a settlement again, against the same window,
\* changes no balance, wager or task; and a settlement leaves the settled
\* wagers as they are and credits the payouts of the wagers it settles only
SettleIdempotent ==
    Len(allBlocks) > 0 =>
        \A s \in {Settle(balance, bets, tasks, globalMetrics, allBlocks)} :
            SettledOnce(balance, bets, s, SettleAgain(s, allBlocks))

\* a cycle is about to settle a task's wager, next to a wager settled before
SettleIdempotentWitness ==
    /\ effectPending
    /\ Len(allBlocks) > 0
    /\ Settle(balance, bets, tasks, globalMetrics, allBlocks).tasksChanged
    /\ \E i \in 1..Len(bets) : bets[i].status = "WIN"

\* one step of a wager's life
LifecycleStep ==
    last'.op # "reset" =>
        /\ Len(bets') >= Len(bets)
        /\ \A k \in 1..Len(bets') :
             IF k > Len(bets) THEN FromEnd(bets', k).status = "PENDING"
             ELSE LET old == FromEnd(bets, k)
                      new == FromEnd(bets', k)
                  IN  /\ Settled(old) => /\ new.status = old.status
                                         /\ new.payout = old.payout
                                         /\ new.balanceAfter = old.balanceAfter
                      /\ (~Settled(old) /\ Settled(new)) =>
                             /\ new.status \in {"WIN", "LOSS"}
                             /\ allBlocks' = allBlocks
                             /\ HasBlock(allBlocks, old.targetHeight)

\* C4: a wager enters the ledger PENDING, becomes WIN or LOSS at most once and
\* only in a cycle whose window has a block at its target height, and keeps
\* its status, payout and balanceAfter from then on (until resetAccount)
Lifecycle == [][LifecycleStep]_vars

\* a settled wager next to a wager whose height the feed has skipped
LifecycleWitness ==
    /\ ~effectPending
    /\ \E i \in 1..Len(bets) : Settled(bets[i])
    /\ \E j \in 1..Len(bets) :
         /\ ~Settled(bets[j])
         /\ bets[j].targetHeight < HeadHeight(allBlocks)
         /\ ~HasBlock(allBlocks, bets[j].targetHeight)

\* one step of the ledger, for the result of a settlement
SettlementStep ==
    last'.op # "reset" =>
        \A k \in 1..Len(bets') :
            IF k > Len(bets) THEN FromEnd(bets', k).odds = config.odds
            ELSE LET old == FromEnd(bets, k)
                     new == FromEnd(bets', k)
                     won == BlockVal(BlockAt(allBlocks, old.targetHeight), old.betType) = old.prediction
                 IN  /\ new.odds = old.odds
                     /\ new.amount = old.amount
                     /\ (~Settled(old) /\ Settled(new)) =>
                            /\ HasBlock(allBlocks, old.targetHeight)
                            /\ new.status = IF won THEN "WIN" ELSE "LOSS"
                            /\ new.payout = IF won THEN (old.amount * old.odds) \div Scale ELSE 0
                            /\ ( /\ Len(bets') = 1
                                 /\ balance = U(9900) /\ old.amount = U(100) /\ old.odds = 198 )
                               => /\ new.payout = IF won THEN U(198) ELSE 0
                                  /\ balance' = IF won THEN U(10098) ELSE U(9900)

\* C5: a wager settles WIN iff the target block's value on the wager's axis is
\* its prediction; the payout is stake x the odds the wager recorded when it
\* was placed, whatever the configured odds are now, and 0 when lost; bankroll
\* 10000, stake 100, odds 1.98 gives 198 and 10098 on a win, 0 and 9900 on a loss
SettlementResult == [][SettlementStep]_vars

\* the wager of the example has won after the configured odds were changed
SettlementResultWitness ==
    /\ Len(bets) = 1
    /\ bets[1].status = "WIN"
    /\ bets[1].amount = U(100) /\ bets[1].odds = 198 /\ bets[1].payout = U(198)
    /\ config.odds # bets[1].odds
    /\ balance = U(10098)

\* C6: every wager a cycle places for a task has a stake > 0 that does not
\* exceed the bankroll available when it is placed
StakeWithinBankroll ==
    last.op = "cycle" =>
        \A e \in 1..Len(last.evals) :
            last.evals[e].bet =>
                /\ last.evals[e].amount > 0
                /\ last.evals[e].amount <= last.evals[e].avail

\* C7: a manual wager whose stake exceeds the balance is refused
ManualRefusedWhenShort ==
    (last.op = "manual" /\ last.amount > last.avail) => ~last.ok

\* the condition of the global stop, on the bankroll a cycle had after settling
Tripped ==
    LET profit == last.avail - config.initialBalance
    IN  \/ (config.takeProfit > 0 /\ profit >= config.takeProfit)
        \/ (config.stopLoss > 0 /\ profit <= -config.stopLoss)

\* C8: a cycle in which the stop condition holds after the settlement ends
\* with every task inactive and adds no wager, however the tasks were before
\* it; with stopLoss = 0 and takeProfit = 0 no cycle stops
GlobalStopHalts ==
    last.op = "cycle" =>
        /\ Tripped => /\ \A i \in 1..Len(tasks) : ~tasks[i].isActive
                      /\ last.added = 0
                      /\ last.evals = <<>>
        /\ last.stop <=> Tripped
        /\ (config.stopLoss = 0 /\ config.takeProfit = 0) => ~last.stop

\* a task that had placed wagers was switched on while the stop condition
\* held, and the cycle that followed stopped it again
GlobalStopHaltsWitness ==
    /\ last.op = "cycle"
    /\ last.after = "toggle"
    /\ last.wasActive
    /\ Tripped
    /\ \E i \in 1..Len(tasks), j \in 1..Len(bets) :
         bets[j].taskId = tasks[i].id /\ Settled(bets[j])

\* C9: a task a cycle evaluates while the bankroll is below its current
\* progression stake is set inactive and places no wager
BankruptcyDeactivates ==
    last.op = "cycle" =>
        \A e \in 1..Len(last.evals) :
            last.evals[e].avail < last.evals[e].required =>
                /\ last.evals[e].deactivated
                /\ ~last.evals[e].bet

\* one cycle, for the wagers it adds
OnePerTaskStep ==
    last'.op = "cycle" =>
        /\ CountBy(bets', NoTask) = CountBy(bets, NoTask)
        /\ \A id \in 1..(nextId - 1) :
             LET added == CountBy(bets', id) - CountBy(bets, id)
             IN  /\ added \in {0, 1}
                 /\ (~ \E i \in 1..Len(tasks) : tasks[i].id = id /\ tasks[i].isActive)
                        => added = 0

\* C10: a cycle adds at most one wager per task, whatever the kind of the
\* task, and none for a task that is inactive
OnePerTask == [][OnePerTaskStep]_vars

\* one cycle has placed a wager for a scan-mode task and for a single-rule task
OnePerTaskWitness ==
    /\ last.op = "cycle"
    /\ \E a, b \in 1..Len(last.evals) :
         /\ last.evals[a].bet /\ last.evals[b].bet
         /\ TaskIndex(tasks, last.evals[a].id) # 0
         /\ TaskIndex(tasks, last.evals[b].id) # 0
         /\ IsGlobal(TaskOf(last.evals[a].id).config.autoTarget)
         /\ ~IsGlobal(TaskOf(last.evals[b].id).config.autoTarget)

\* the alignment of the specification, written with the mathematical modulus
AlignedTo(h, step, offset) ==
    \/ step <= 1
    \/ offset > 0 /\ h >= offset /\ (h - offset) % step = 0
    \/ offset = 0 /\ h % step = 0

\* C11: checkRuleAlignment(h, rule) is true iff step <= 1, or offset > 0 and
\* h >= offset and (h - offset) mod step = 0, or offset = 0 and h mod step = 0;
\* for the rule of step 20 and offset 0 exactly the multiples of 20 are aligned
Alignment ==
    last.op = "aligned" =>
        /\ last.isAligned <=> AlignedTo(last.h, last.rule.value, last.rule.startBlock)
        /\ (last.rule.value = 20 /\ last.rule.startBlock = 0)
              => (last.isAligned <=> \E k \in 0..last.h : last.h = 20 * k)

\* a height below the offset of a rule, a whole number of steps away from it,
\* has been found not aligned
AlignmentWitness ==
    /\ last.op = "aligned"
    /\ last.rule.value > 1
    /\ last.h < last.rule.startBlock
    /\ (last.rule.startBlock - last.h) % last.rule.value = 0
    /\ ~last.isAligned

\* C12: getNextTargetHeight(h, rule) is above h, is aligned to the rule, and no
\* aligned height lies strictly between h and it, also for heights below the
\* offset of the rule and for aligned heights; it is h + 1 for a step of 1, and
\* 40 for h = 25 under the rule of step 20 and offset 0
NextAlignedIsNext ==
    last.op = "aligned" =>
        /\ last.nextAligned > last.h
        /\ checkRuleAlignment(last.nextAligned, last.rule)
        /\ \A x \in (last.h + 1)..(last.nextAligned - 1) : ~checkRuleAlignment(x, last.rule)
        /\ last.rule.value <= 1 => last.nextAligned = last.h + 1
        /\ (last.h = 25 /\ last.rule.value = 20 /\ last.rule.startBlock = 0) => last.nextAligned = 40


\* the stakes of the scenario: maxCycle 3, multiplier 2, base 100
MartingaleCapStakes == <<U(100), U(200), U(400), U(100)>>

\* C13: for a MARTINGALE task with maxCycle 3, multiplier 2 and base 100, in a
\* run of consecutive losses that starts at the base stake the first three
\* losing wagers are staked 100, 200 and 400, and the fourth is staked 100
\* again (the stake was reset when the cycle was exhausted)
MartingaleCap ==
    (/\ tasks # <<>>
     /\ tasks[1].config.type = "MARTINGALE"
     /\ tasks[1].config.maxCycle = 3
     /\ tasks[1].config.multiplier = 200
     /\ tasks[1].baseBet = U(100)
     /\ last.op = "settled")
    => \A k \in 1..Len(last.losing) :
          k <= Len(MartingaleCapStakes) => last.losing[k] = MartingaleCapStakes[k]

\* four wagers of the capped Martingale task have been lost in a row
MartingaleCapWitness ==
    /\ tasks # <<>>
    /\ tasks[1].config.type = "MARTINGALE"
    /\ tasks[1].config.maxCycle = 3
    /\ last.op = "settled"
    /\ Len(last.losing) = 4
    /\ tasks[1].state.currentBetAmount = U(200)


\* the stake of the specification: bankroll x f x riskFraction floored, with
\* f = (b*p - q)/b, b = odds - 1, p = confidence/100, q = 1 - p, raised to the
\* base stake and capped at the bankroll; the base stake when f <= 0
KellyStake(bankroll, odds, confidence, riskFraction, base) ==
    LET num == (odds - Scale) * confidence - 100 * (100 - confidence)
        den == 100 * (odds - Scale)
    IN  IF num > 0 /\ den > 0
        THEN Min(Max(base, U(MulDivFloor(bankroll, num * riskFraction, den * Scale * 100))), bankroll)
        ELSE base

\* C14: the stake an AI_KELLY task places is bankroll x f x riskFraction
\* floored, raised to at least the task's base stake and capped at the
\* bankroll, the task's base stake when f <= 0, and never zero or negative
\* (fixed-target tasks: confidence 60)
KellySizing ==
    last.op = "cycle" =>
        \A e \in 1..Len(last.evals) :
            (last.evals[e].bet /\ TaskOf(last.evals[e].id).config.type = "AI_KELLY") =>
                /\ last.evals[e].amount =
                       KellyStake(last.evals[e].avail, config.odds, 60,
                                  TaskOf(last.evals[e].id).config.kellyFraction,
                                  TaskOf(last.evals[e].id).baseBet)
                /\ last.evals[e].amount > 0


\* the state of a task after the wagers of the ledger bs that carry its id and
\* are settled in newBs, each advancing it once, in the order of the ledger
RECURSIVE StateAfter(_, _, _, _)
StateAfter(task, bs, newBs, i) ==
    IF i > Len(bs) THEN task.state
    ELSE IF /\ bs[i].taskId = task.id
            /\ ~Settled(bs[i])
            /\ Settled(newBs[i + Len(newBs) - Len(bs)])
         THEN StateAfter([task EXCEPT !.state = Advance(task, newBs[i + Len(newBs) - Len(bs)].status = "WIN")],
                         bs, newBs, i + 1)
         ELSE StateAfter(task, bs, newBs, i + 1)

StakeStateStep ==
    \A i \in 1..Len(tasks), j \in 1..Len(tasks') :
        tasks[i].id = tasks'[j].id =>
            tasks'[j].state = StateAfter(tasks[i], bets, bets', 1)

\* C15: the stake state of a task (currentBetAmount, consecutiveLosses,
\* sequenceIndex) is advanced once for each wager of the task a step settles
\* and changed by nothing else: placing a wager, toggling, settling a manual
\* wager or another task's, and cycles that settle nothing leave it as it is
StakeStateFrame == [][StakeStateStep]_vars

\* a cycle has settled a lost wager of one task and a manual wager and placed
\* the task's next wager; the task's stake state has advanced once and the
\* other task, which had no wager, is at its initial stake state
StakeStateFrameWitness ==
    /\ last.op = "cycle"
    /\ last.settled
    /\ last.added > 0
    /\ Len(tasks) = 2
    /\ tasks[1].state.consecutiveLosses = 1
    /\ CountBy(bets, tasks[1].id) = 2
    /\ CountBy(bets, tasks[2].id) = 0
    /\ tasks[2].state.consecutiveLosses = 0
    /\ tasks[2].state.currentBetAmount = tasks[2].baseBet
    /\ \E m \in 1..Len(bets) : bets[m].taskId = NoTask /\ Settled(bets[m])


ResetStep ==
    /\ last'.op = "reset" =>
          /\ balance' = DefaultInitialBalance
          /\ config' = Defaults
          /\ globalMetrics' = DefaultMetrics
          /\ bets' = <<>>
          /\ tasks' = <<>>
    /\ (last.op = "reset" /\ last'.op = "cycle") =>
          /\ ~last'.settled
          /\ tasks' = <<>>
          /\ bets' = <<>>
          /\ balance' = DefaultInitialBalance

ConfigValidated ==
    \A i \in 1..Len(tasks) :
        /\ tasks[i].baseBet > 0
        /\ tasks[i].config.type = "MARTINGALE" => tasks[i].config.multiplier > 0
        /\ tasks[i].config.type = "DALEMBERT" => tasks[i].config.step > 0


\* the ledger bs holds a wager of the source id (NoTask: manual) on the rule
\* and height
WagerOn(bs, id, ruleId, h) ==
    \E i \in 1..Len(bs) : bs[i].taskId = id /\ bs[i].ruleId = ruleId /\ bs[i].targetHeight = h

ManualTaskStep ==
    /\ last'.op = "manual" =>
          /\ last'.ok <=> ~WagerOn(bets, NoTask, last'.ruleId, last'.height)
          /\ ~last'.ok => (bets' = bets /\ balance' = balance)
          /\ last'.ok => /\ Len(bets') = Len(bets) + 1
                         /\ bets'[1].taskId = NoTask
                         /\ bets'[1].ruleId = last'.ruleId
                         /\ bets'[1].targetHeight = last'.height
                         /\ balance' = balance - bets'[1].amount
    /\ last'.op = "cycle" =>
          \A e \in 1..Len(last'.evals) :
              LET id == last'.evals[e].id
                  task == tasks[TaskIndex(tasks, id)]
                  rule == RuleOf(task.ruleId)
                  h == getNextTargetHeight(HeadHeight(allBlocks), rule.value, rule.startBlock)
              IN  (IsFixed(task.config.autoTarget) /\ ~last'.evals[e].deactivated) =>
                      /\ last'.evals[e].bet <=> ~WagerOn(bets, id, rule.id, h)
                      /\ last'.evals[e].bet => WagerOn(bets', id, rule.id, h)

\* C18: a manual wager is accepted iff the ledger holds no manual wager on its
\* rule and height, whatever wagers of tasks it holds, and a rejected one
\* changes neither ledger nor balance; a task on a fixed target places its
\* wager iff the ledger holds no wager of that task on its rule and height,
\* whatever manual wagers and wagers of other tasks it holds
ManualTaskApart == [][ManualTaskStep]_vars

\* a second manual wager on a rule and height has just been rejected, the
\* ledger holding the first one and, placed after it, the wager of a task on
\* the same rule and height
ManualTaskApartWitness ==
    /\ last.op = "manual"
    /\ ~last.ok
    /\ \E m, t \in 1..Len(bets) :
         /\ t < m
         /\ bets[m].taskId = NoTask
         /\ bets[t].taskId # NoTask
         /\ \A x \in {m, t} : bets[x].ruleId = last.ruleId /\ bets[x].targetHeight = last.height


\* the wager belongs to a task that is no longer in the list ts
Orphan(bet, ts) == bet.taskId # NoTask /\ TaskIndex(ts, bet.taskId) = 0

\* the step has taken from PENDING no wager but wagers of deleted tasks, and
\* at least one of them
SettlesOrphansOnly ==
    /\ Len(bets') >= Len(bets)
    /\ \E k \in 1..Len(bets) :
         ~Settled(FromEnd(bets, k)) /\ Settled(FromEnd(bets', k))
    /\ \A k \in 1..Len(bets) :
         (~Settled(FromEnd(bets, k)) /\ Settled(FromEnd(bets', k))) => Orphan(FromEnd(bets, k), tasks)

\* a step of the engine or of deleteTask; stopAllowed: the global stop may
\* deactivate the remaining tasks
OrphanStep(stopAllowed) ==
    /\ (last'.op = "command" /\ Len(tasks') < Len(tasks)) =>
          /\ bets' = bets
          /\ balance' = balance
          /\ \E i \in 1..Len(tasks) :
               tasks' = SubSeq(tasks, 1, i - 1) \o SubSeq(tasks, i + 1, Len(tasks))
    /\ last'.op = "cycle" =>
          /\ Len(bets') >= Len(bets)
          /\ \A k \in 1..Len(bets) :
               /\ FromEnd(bets', k).taskId = FromEnd(bets, k).taskId
               /\ (~Settled(FromEnd(bets, k)) /\ HasBlock(allBlocks, FromEnd(bets, k).targetHeight))
                     => Settled(FromEnd(bets', k))
          /\ balance' = balance + (PayoutSum(bets', 1) - PayoutSum(bets, 1))
                                - (StakeSum(bets', 1) - StakeSum(bets, 1))
          /\ SettlesOrphansOnly =>
               \A i \in 1..Len(tasks) :
                   /\ Len(tasks') = Len(tasks)
                   /\ tasks'[i].stats = tasks[i].stats
                   /\ tasks'[i].state = tasks[i].state
                   /\ \/ tasks'[i].isActive = tasks[i].isActive
                      \/ stopAllowed /\ last'.stop /\ ~tasks'[i].isActive

\* C19, as stated: deleting a task removes only the task; its wagers stay in
\* the ledger with their taskId, the pending ones are settled and credited when
\* their block arrives, and settling them changes no remaining task's stats,
\* stake state or active flag
OrphanFrame == [][OrphanStep(FALSE)]_vars

\* C19, amended: the same, except that the payout of such a wager counts
\* toward the global take-profit, which deactivates every remaining task
OrphanFrameButStop == [][OrphanStep(TRUE)]_vars

\* a cycle has settled the won wager of a deleted task and nothing else; a
\* task that never had a wager settled remains, still active
OrphanFrameButStopWitness ==
    /\ last.op = "cycle"
    /\ last.settled
    /\ ~last.stop
    /\ \E b \in 1..Len(bets) :
         /\ bets[b].status = "WIN"
         /\ Orphan(bets[b], tasks)
         /\ \A c \in 1..Len(bets) : Settled(bets[c]) => c = b
    /\ \E i \in 1..Len(tasks) :
         /\ tasks[i].isActive
         /\ tasks[i].stats.wins + tasks[i].stats.losses = 0


\* the wagers the step from ledger bs to newBs settles carry, read in the order
\* they entered the ledger from the k-th on, the running balance that starts
\* at run and adds the payout of each
RECURSIVE ChronologicalBalances(_, _, _, _)
ChronologicalBalances(bs, newBs, k, run) ==
    IF k > Len(bs) THEN TRUE
    ELSE IF ~Settled(FromEnd(bs, k)) /\ Settled(FromEnd(newBs, k))
         THEN /\ FromEnd(newBs, k).balanceAfter = run + FromEnd(newBs, k).payout
              /\ ChronologicalBalances(bs, newBs, k + 1, run + FromEnd(newBs, k).payout)
         ELSE ChronologicalBalances(bs, newBs, k + 1, run)

\* C20: the wagers a cycle settles are settled in the order they entered the
\* ledger, each stamped with the balance after its own credit, so that their
\* balanceAfter read in chronological order is the running balance of a
\* chronological replay
SettlementOrder ==
    [][(last'.op = "cycle" /\ Len(bets') >= Len(bets))
          => ChronologicalBalances(bets, bets', 1, balance)]_vars



\* C21: a manual wager, a task toggle or a task deletion issued around an
\* engine cycle is still there after that cycle's commit: the accepted wager is
\* in the ledger and its stake is off the balance, the task has the activity
\* the operator gave it (a cycle may stop a task, never start one), the deleted
\* task is gone; and the balance is the replay of the ledger
CommandsSurviveCycle ==
    /\ BankrollReplay
    /\ last.op = "raced" =>
         /\ last.command = "manual" =>
              /\ WagerOn(bets, NoTask, last.ruleId, last.height)
              /\ Len(bets) > last.wagers
         /\ (last.command = "toggle" /\ ~last.isActive) => ~TaskOf(last.id).isActive
         /\ last.command = "delete" => TaskIndex(tasks, last.id) = 0


RECURSIVE Gcd(_, _)
Gcd(a, b) == IF b = 0 THEN a ELSE Gcd(b, a % b)

RECURSIVE Power(_, _)
Power(a, k) == IF k = 0 THEN 1 ELSE a * Power(a, k - 1)

\* floor(base x multiplier^k), the multiplier taken as a reduced fraction of Scale
PowerStake(base, multiplier, k) ==
    LET g == Gcd(multiplier, Scale)
    IN  Floor((base * Power(multiplier \div g, k)) \div Power(Scale \div g, k))

\* the stake after k losses when the floor is taken at every loss
RECURSIVE IteratedStake(_, _, _)
IteratedStake(start, multiplier, k) ==
    IF k = 0 THEN start
    ELSE Floor((IteratedStake(start, multiplier, k - 1) * multiplier) \div Scale)

\* C22 as stated, for a base stake that is an integer: 0 <= consecutiveLosses
\* < maxCycle, the stake is floor(base x multiplier^consecutiveLosses), and a
\* win or the loss that exhausts the cycle gives (base, 0)
MartingalePower ==
    LET t == tasks[1]
    IN  t.baseBet = Floor(t.baseBet) =>
            /\ 0 <= t.state.consecutiveLosses
            /\ t.state.consecutiveLosses < t.config.maxCycle
            /\ t.state.currentBetAmount =
                   PowerStake(t.baseBet, t.config.multiplier, t.state.consecutiveLosses)
            /\ t.state.consecutiveLosses = 0 => t.state.currentBetAmount = t.baseBet

\* C22, amended: 0 <= consecutiveLosses < maxCycle; a win or the loss that
\* exhausts the cycle gives (floor(base), 0); every other loss multiplies the
\* stake it finds by the multiplier and floors the product, so that the stake
\* is the floor taken consecutiveLosses times in turn, starting from base for
\* a task that has never been reset and from floor(base) after a reset
MartingaleIterated ==
    LET t == tasks[1]
        start == IF used = t.state.consecutiveLosses THEN t.baseBet ELSE Floor(t.baseBet)
    IN  /\ 0 <= t.state.consecutiveLosses
        /\ t.state.consecutiveLosses < t.config.maxCycle
        /\ t.state.currentBetAmount =
               IteratedStake(start, t.config.multiplier, t.state.consecutiveLosses)
        /\ (used > 0 /\ t.state.consecutiveLosses = 0) =>
               t.state.currentBetAmount = Floor(t.baseBet)

\* base 100 and multiplier 1.5: after a win and four losses the stake is 505,
\* floor(100 x 1.5^4) being 506
MartingaleIteratedWitness ==
    /\ tasks[1].baseBet = U(100)
    /\ tasks[1].config.multiplier = 150
    /\ tasks[1].state.consecutiveLosses = 4
    /\ tasks[1].state.currentBetAmount = U(505)
    /\ used > 4


\* the wager of the task id that the step settles, as the step leaves it
SettledNow(bs, newBs, id) ==
    {newBs[k + Len(newBs) - Len(bs)] :
        k \in {j \in 1..Len(bs) : /\ bs[j].taskId = id
                                  /\ ~Settled(bs[j])
                                  /\ Settled(newBs[j + Len(newBs) - Len(bs)])}}

\* the wagers the step adds for the task id
PlacedNow(bs, newBs, id) ==
    {newBs[n] : n \in {m \in 1..(Len(newBs) - Len(bs)) : newBs[m].taskId = id}}

SettleThenPlaceStep ==
    last'.op = "cycle" =>
        \A i \in 1..Len(tasks) : \A w \in SettledNow(bets, bets', tasks[i].id) :
            \A n \in PlacedNow(bets, bets', tasks[i].id) :
                /\ n.amount = Floor(Advance(tasks[i], w.status = "WIN").currentBetAmount)
                /\ n.targetHeight > w.targetHeight
                /\ (w.status = "LOSS" /\ tasks[i].config.type = "MARTINGALE"
                      /\ tasks[i].state.consecutiveLosses + 1 < tasks[i].config.maxCycle)
                     => n.amount # Floor(tasks[i].state.currentBetAmount)

\* C23: when a cycle settles a task's pending wager and places that task's next
\* wager, the new stake is the progression stake that results from the
\* settlement (after a Martingale loss below the cap it is not the stake the
\* task had before), and the new wager is on a later height
SettleThenPlace == [][SettleThenPlaceStep]_vars

\* a cycle has settled a lost wager of a Martingale task staked 100 and has
\* placed the task's next wager at 200
SettleThenPlaceWitness ==
    /\ last.op = "cycle"
    /\ last.settled
    /\ \E i \in 1..Len(tasks) :
         /\ tasks[i].config.type = "MARTINGALE"
         /\ tasks[i].state.consecutiveLosses = 1
         /\ Len(bets) >= 2
         /\ bets[1].taskId = tasks[i].id /\ bets[1].status = "PENDING" /\ bets[1].amount = U(200)
         /\ bets[2].taskId = tasks[i].id /\ bets[2].status = "LOSS" /\ bets[2].amount = U(100)
         /\ bets[2].targetHeight = HeadHeight(allBlocks)


\* the stakes of the wagers that are still PENDING
RECURSIVE PendingStakes(_, _)
PendingStakes(bs, i) ==
    IF i > Len(bs) THEN 0
    ELSE (IF Settled(bs[i]) THEN 0 ELSE bs[i].amount) + PendingStakes(bs, i + 1)

\* C24: a cycle stops the tasks on the stop-loss only when the wagers settled
\* so far have brought the profit to -stopLoss or below: the profit with the
\* stakes of the PENDING wagers put back is at or below -stopLoss
StopLossOnSettledLosses ==
    (/\ last.op = "cycle"
     /\ last.stop
     /\ ~(config.takeProfit > 0 /\ last.avail - config.initialBalance >= config.takeProfit))
    => last.avail + PendingStakes(bets, 1) - config.initialBalance <= -config.stopLoss


\* C25: every stake recorded in the ledger, of a task or manual, is a whole
\* number of units
IntegerStakes ==
    \A i \in 1..Len(bets) : bets[i].amount = Floor(bets[i].amount)


\* C26: once the head of the window has reached the target height of a wager
\* and the cycles the feed set off have run, the wager is settled: with no
\* cycle left to run, no wager on a height at or below the head is PENDING
\* (the feed only adds heights above the head, so such a wager stays PENDING
\* whatever arrives later)
SettledOnceReached ==
    (~effectPending /\ Len(allBlocks) > 0) =>
        \A i \in 1..Len(bets) :
            bets[i].targetHeight <= HeadHeight(allBlocks) => Settled(bets[i])


\* the PENDING wagers of the task id
PendingOf(bs, id) == {j \in 1..Len(bs) : bs[j].taskId = id /\ ~Settled(bs[j])}

ScanSequentialStep ==
    \A i \in 1..Len(tasks') :
        IsGlobal(tasks'[i].config.autoTarget) =>
            /\ Cardinality(PendingOf(bets', tasks'[i].id)) <= 1
            /\ (/\ last'.op = "cycle"
                /\ \E k \in 1..Len(bets) :
                     /\ bets[k].taskId = tasks'[i].id
                     /\ ~Settled(bets'[k + Len(bets') - Len(bets)]))
               => PlacedNow(bets, bets', tasks'[i].id) = {}

\* C27: a scan-mode task (GLOBAL_AI_FULL_SCAN, GLOBAL_TREND_DRAGON,
\* GLOBAL_BEAD_DRAGON) never has more than one PENDING wager, and a cycle that
\* leaves one of its wagers PENDING after the settlement places nothing for it
ScanSequential == [][ScanSequentialStep]_vars

\* a cycle has evaluated an active scan-mode task whose wager is on a height
\* the feed has skipped, and has placed nothing for it
ScanSequentialWitness ==
    /\ last.op = "cycle"
    /\ \E i \in 1..Len(tasks), e \in 1..Len(last.evals) :
         /\ IsGlobal(tasks[i].config.autoTarget)
         /\ tasks[i].isActive
         /\ last.evals[e].id = tasks[i].id
         /\ ~last.evals[e].bet
         /\ \E j \in PendingOf(bets, tasks[i].id) :
              bets[j].targetHeight < HeadHeight(allBlocks)


\* the axis and the outcome each fixed target stands for
FixedOutcome(autoTarget) ==
    CASE autoTarget = "FIXED_ODD" -> <<"PARITY", "ODD">>
      [] autoTarget = "FIXED_EVEN" -> <<"PARITY", "EVEN">>
      [] autoTarget = "FIXED_BIG" -> <<"SIZE", "BIG">>
      [] autoTarget = "FIXED_SMALL" -> <<"SIZE", "SMALL">>

\* h is the smallest height above head that is aligned to the rule
NextAlignedAfter(h, head, rule) ==
    /\ h > head
    /\ AlignedTo(h, rule.value, rule.startBlock)
    /\ \A x \in (head + 1)..(h - 1) : ~AlignedTo(x, rule.value, rule.startBlock)

\* C28: after a cycle that the global stop did not trip, every task on a fixed
\* target that is active (it passed the bankroll check) and whose rule exists
\* has a wager of its own in the ledger on its rule and the next aligned height
\* after the head, on the axis and the outcome of its target
FixedAlwaysBets ==
    (last.op = "cycle" /\ ~last.stop) =>
        \A i \in 1..Len(tasks) :
            (/\ tasks[i].isActive
             /\ tasks[i].config.autoTarget \in {"FIXED_ODD", "FIXED_EVEN", "FIXED_BIG", "FIXED_SMALL"}
             /\ tasks[i].ruleId \in RuleIds)
            => \E j \in 1..Len(bets) :
                  /\ bets[j].taskId = tasks[i].id
                  /\ bets[j].ruleId = tasks[i].ruleId
                  /\ NextAlignedAfter(bets[j].targetHeight, HeadHeight(allBlocks), RuleOf(tasks[i].ruleId))
                  /\ <<bets[j].betType, bets[j].prediction>> = FixedOutcome(tasks[i].config.autoTarget)


\* the settled wagers of the task id
OwnSettled(bs, id) == SelectSeq(bs, LAMBDA b : b.taskId = id /\ Settled(b))

\* the wagers settled since the component was constructed: the saved ledgers
\* hold settled wagers on heights below BaseHeight, every wager placed
\* afterwards is on a height above it
SinceLoad(bs) == SelectSeq(bs, LAMBDA b : b.targetHeight > BaseHeight)

\* wins, losses, profit and peakProfit of every task against the ledger, and
\* peakProfit and maxDrawdown against what they were
StatsStep ==
    \A j \in 1..Len(tasks') :
        LET st == tasks'[j].stats
            own == OwnSettled(bets', tasks'[j].id)
        IN  /\ st.wins + st.losses = Len(own)
            /\ st.profit = PayoutSum(own, 1) - StakeSum(own, 1)
            /\ st.peakProfit >= st.profit
            /\ \A i \in 1..Len(tasks) :
                 tasks[i].id = tasks'[j].id =>
                     /\ st.peakProfit >= tasks[i].stats.peakProfit
                     /\ st.maxDrawdown >= tasks[i].stats.maxDrawdown

\* C29 as stated: for every task wins + losses is the number of its settled
\* wagers, profit the sum of payout - stake over them, totalBetAmount the sum
\* of their stakes, peakProfit >= profit, maxDrawdown >= peakProfit - profit,
\* and peakProfit and maxDrawdown never decrease
StatsMatchLedger ==
    [][/\ StatsStep
       /\ \A j \in 1..Len(tasks') :
            LET st == tasks'[j].stats
            IN  /\ st.totalBetAmount = StakeSum(OwnSettled(bets', tasks'[j].id), 1)
                /\ st.maxDrawdown >= st.peakProfit - st.profit]_vars

\* C29, amended: as stated, except that for a task loaded from a record
\* without the newer stat fields totalBetAmount is the sum of the stakes of
\* its wagers settled since the load, and maxDrawdown >= peakProfit - profit
\* holds once one of its wagers has been settled since the load
StatsMatchLedgerSinceLoad ==
    [][/\ StatsStep
       /\ \A j \in 1..Len(tasks') :
            LET st == tasks'[j].stats
                own == OwnSettled(bets', tasks'[j].id)
            IN  /\ st.totalBetAmount = StakeSum(SinceLoad(own), 1)
                /\ (Len(SinceLoad(own)) > 0 \/ Len(own) = 0)
                     => st.maxDrawdown >= st.peakProfit - st.profit]_vars

\* the task loaded with one lost wager has since won one and lost one, next to
\* a task created after the load that has a settled wager
StatsMatchLedgerSinceLoadWitness ==
    /\ Len(tasks) = 2
    /\ Len(OwnSettled(bets, tasks[1].id)) = 3
    /\ Len(SinceLoad(OwnSettled(bets, tasks[1].id))) = 2
    /\ tasks[1].stats.wins = 1 /\ tasks[1].stats.losses = 2
    /\ tasks[1].stats.totalBetAmount = U(200)
    /\ Len(OwnSettled(bets, tasks[2].id)) > 0


\* C30: after every cycle peakBalance >= balance and maxDrawdown >=
\* peakBalance - balance, and no step but resetAccount lowers peakBalance or
\* maxDrawdown
DrawdownTracked ==
    [][/\ last'.op = "cycle" =>
            /\ globalMetrics'.peakBalance >= balance'
            /\ globalMetrics'.maxDrawdown >= globalMetrics'.peakBalance - balance'
       /\ last'.op # "reset" =>
            /\ globalMetrics'.peakBalance >= globalMetrics.peakBalance
            /\ globalMetrics'.maxDrawdown >= globalMetrics.maxDrawdown]_vars


\* the task of the runs of one progression alone
Lone == tasks[1]

\* C31 as stated: with step > 0 a D'Alembert stake is never below the base
\* stake; a loss raises it by step, a win lowers it by step but not below the
\* base stake
DAlembertLadder ==
    (Lone.config.type = "DALEMBERT" /\ Lone.config.step > 0) =>
        /\ Lone.state.currentBetAmount >= Lone.baseBet
        /\ last.op = "settled" =>
             Lone.state.currentBetAmount =
                 IF last.isWin
                 THEN Max(last.before.currentBetAmount - Lone.config.step, Lone.baseBet)
                 ELSE last.before.currentBetAmount + Lone.config.step

\* C31: with step > 0 a D'Alembert stake is never below the base stake floored
\* to a whole unit; a loss sets it to floor(stake + step), a win to
\* floor(max(stake - step, base))
DAlembertFloored ==
    (Lone.config.type = "DALEMBERT" /\ Lone.config.step > 0) =>
        /\ Lone.state.currentBetAmount >= Floor(Lone.baseBet)
        /\ last.op = "settled" =>
             Lone.state.currentBetAmount =
                 IF last.isWin
                 THEN Floor(Max(last.before.currentBetAmount - Lone.config.step, Lone.baseBet))
                 ELSE Floor(last.before.currentBetAmount + Lone.config.step)

\* a win that found the stake above the base stake and less than a step
\* above it, after a loss raised it
DAlembertFlooredWitness ==
    /\ Lone.config.type = "DALEMBERT"
    /\ last.op = "settled"
    /\ last.isWin
    /\ last.before.currentBetAmount > Lone.baseBet
    /\ last.before.currentBetAmount - Lone.config.step < Lone.baseBet
    /\ Lone.state.currentBetAmount = Floor(Lone.baseBet)


\* C32 as stated: a Fibonacci task has 0 <= sequenceIndex <= 14 and stake =
\* base x FIB_SEQ[sequenceIndex]; a loss moves the index up by one, capped at
\* the last index, a win moves it down by two, floored at 0
FibonacciLadder ==
    Lone.config.type = "FIBONACCI" =>
        /\ Lone.state.sequenceIndex \in 0..14
        /\ Lone.state.currentBetAmount = Lone.baseBet * FIB_SEQ[Lone.state.sequenceIndex + 1]
        /\ last.op = "settled" =>
             Lone.state.sequenceIndex =
                 IF last.isWin
                 THEN Max(0, last.before.sequenceIndex - 2)
                 ELSE Min(last.before.sequenceIndex + 1, 14)

\* C32: the same with the stake floored to a whole unit once a wager of the
\* task has settled: stake = floor(base x FIB_SEQ[sequenceIndex]), and stake =
\* base before the first settlement
FibonacciFloored ==
    Lone.config.type = "FIBONACCI" =>
        /\ Lone.state.sequenceIndex \in 0..14
        /\ Lone.state.currentBetAmount =
               IF last.op = "settled"
               THEN Floor(Lone.baseBet * FIB_SEQ[Lone.state.sequenceIndex + 1])
               ELSE Lone.baseBet
        /\ last.op = "settled" =>
             Lone.state.sequenceIndex =
                 IF last.isWin
                 THEN Max(0, last.before.sequenceIndex - 2)
                 ELSE Min(last.before.sequenceIndex + 1, 14)

\* a loss that found the index at the last entry and left it there
FibonacciFlooredWitness ==
    /\ Lone.config.type = "FIBONACCI"
    /\ last.op = "settled"
    /\ ~last.isWin
    /\ last.before.sequenceIndex = 14
    /\ Lone.state.sequenceIndex = 14
    /\ Lone.state.currentBetAmount = Floor(Lone.baseBet * 610)


\* C33 as stated: a Paroli task has sequenceIndex in {0, 1, 2} and stake =
\* base x 2^sequenceIndex; a loss, or the third consecutive win, resets to
\* (base, 0)
ParoliLadder ==
    Lone.config.type = "PAROLI" =>
        /\ Lone.state.sequenceIndex \in 0..2
        /\ Lone.state.currentBetAmount = Lone.baseBet * Power(2, Lone.state.sequenceIndex)
        /\ (last.op = "settled" /\ (~last.isWin \/ last.before.sequenceIndex = 2)) =>
             /\ Lone.state.sequenceIndex = 0
             /\ Lone.state.currentBetAmount = Lone.baseBet

\* C33: a Paroli task has sequenceIndex in {0, 1, 2}; a loss, or the third
\* consecutive win, resets to (floor(base), 0), any other win raises the index
\* by one and sets the stake to floor(2 x stake); once a reset has happened
\* stake = floor(base) x 2^sequenceIndex
ParoliFloored ==
    Lone.config.type = "PAROLI" =>
        /\ Lone.state.sequenceIndex \in 0..2
        /\ last.op = "settled" =>
             IF ~last.isWin \/ last.before.sequenceIndex = 2
             THEN /\ Lone.state.sequenceIndex = 0
                  /\ Lone.state.currentBetAmount = Floor(Lone.baseBet)
             ELSE /\ Lone.state.sequenceIndex = last.before.sequenceIndex + 1
                  /\ Lone.state.currentBetAmount = Floor(2 * last.before.currentBetAmount)
        /\ used > Lone.state.sequenceIndex =>
             Lone.state.currentBetAmount = Floor(Lone.baseBet) * Power(2, Lone.state.sequenceIndex)

\* the third consecutive win, after an earlier reset
ParoliFlooredWitness ==
    /\ Lone.config.type = "PAROLI"
    /\ last.op = "settled"
    /\ last.isWin
    /\ last.before.sequenceIndex = 2
    /\ last.before.currentBetAmount = Floor(Lone.baseBet) * 4
    /\ used > 3
    /\ Lone.state.sequenceIndex = 0


\* C34 as stated: a 1-3-2-6 task has sequenceIndex in 0..3 and stake =
\* base x SEQ_1326[sequenceIndex]; a loss, or the win that completes the
\* fourth step, resets to (base, 0)
Ladder1326 ==
    Lone.config.type = "1326" =>
        /\ Lone.state.sequenceIndex \in 0..3
        /\ Lone.state.currentBetAmount = Lone.baseBet * SEQ_1326[Lone.state.sequenceIndex + 1]
        /\ (last.op = "settled" /\ (~last.isWin \/ last.before.sequenceIndex = 3)) =>
             /\ Lone.state.sequenceIndex = 0
             /\ Lone.state.currentBetAmount = Lone.baseBet

\* C34: a 1-3-2-6 task has sequenceIndex in 0..3; once a wager of the task
\* has settled stake = floor(base x SEQ_1326[sequenceIndex]), before that
\* stake = base; a loss, or the win that completes the fourth step, resets to
\* (floor(base), 0), any other win raises the index by one
Floored1326 ==
    Lone.config.type = "1326" =>
        /\ Lone.state.sequenceIndex \in 0..3
        /\ Lone.state.currentBetAmount =
               IF last.op = "settled"
               THEN Floor(Lone.baseBet * SEQ_1326[Lone.state.sequenceIndex + 1])
               ELSE Lone.baseBet
        /\ last.op = "settled" =>
             Lone.state.sequenceIndex =
                 IF ~last.isWin \/ last.before.sequenceIndex = 3
                 THEN 0
                 ELSE last.before.sequenceIndex + 1

\* the win that completes the fourth step
Floored1326Witness ==
    /\ Lone.config.type = "1326"
    /\ last.op = "settled"
    /\ last.isWin
    /\ last.before.sequenceIndex = 3
    /\ last.before.currentBetAmount = Floor(Lone.baseBet * 6)
    /\ Lone.state.sequenceIndex = 0
    /\ Lone.state.currentBetAmount = Floor(Lone.baseBet)


\* C35: from creation onward a CUSTOM task has 0 <= sequenceIndex <
\* Len(customSequence) and stake = floor(base x customSequence[sequenceIndex]);
\* a loss advances the index by one and wraps to 0 after the last entry, a win
\* sets the index to 0
CustomLadder ==
    Lone.config.type = "CUSTOM" =>
        LET cSeq == CustomSeqOf(Lone.config)
        IN  /\ Lone.state.sequenceIndex \in 0..(Len(cSeq) - 1)
            /\ Lone.state.currentBetAmount =
                   Floor((Lone.baseBet * cSeq[Lone.state.sequenceIndex + 1]) \div Scale)
            /\ last.op = "settled" =>
                 Lone.state.sequenceIndex =
                     IF last.isWin \/ last.before.sequenceIndex + 1 = Len(cSeq)
                     THEN 0
                     ELSE last.before.sequenceIndex + 1


\* C36: calculateStreak on a list ordered most recent first returns the head
\* block's value on the axis and the length of the maximal prefix whose blocks
\* all share it: count 0 and no value for the empty list, otherwise 1 <= count
\* <= Len(blocks), and the block right after the prefix, if any, has another
\* value
StreakIsMaximalPrefix ==
    last.op = "streak" =>
        LET r == last.result
            n == Len(allBlocks)
        IN  IF n = 0
            THEN r.count = 0 /\ r.val = "null"
            ELSE /\ r.val = BlockVal(allBlocks[1], last.type)
                 /\ r.count \in 1..n
                 /\ \A i \in 1..r.count : BlockVal(allBlocks[i], last.type) = r.val
                 /\ r.count < n => BlockVal(allBlocks[r.count + 1], last.type) # r.val

\* a streak of two that a third block ends and a fourth block would resume
StreakIsMaximalPrefixWitness ==
    /\ last.op = "streak"
    /\ Len(allBlocks) = 4
    /\ last.result.count = 2
    /\ BlockVal(allBlocks[3], last.type) # last.result.val
    /\ BlockVal(allBlocks[4], last.type) = last.result.val


\* the wagers a cycle step adds to the ledger (newest first)
NewWagers == {bets'[k] : k \in 1..(Len(bets') - Len(bets))}

FollowReverseStep ==
    last'.op = "cycle" =>
        \A b \in NewWagers :
            LET t == tasks[TaskIndex(tasks, b.taskId)]
                rb == RuleBlocks(allBlocks, RuleOf(t.ruleId))
                axis == t.config.targetType
            IN  t.config.autoTarget \in {"FOLLOW_LAST", "REVERSE_LAST"} =>
                    /\ Len(rb) > 0
                    /\ Len(rb) >= t.config.minStreak
                    /\ \A i \in 1..t.config.minStreak : BlockVal(rb[i], axis) = BlockVal(rb[1], axis)
                    /\ b.ruleId = t.ruleId
                    /\ b.betType = axis
                    /\ b.prediction = IF t.config.autoTarget = "FOLLOW_LAST"
                                      THEN BlockVal(rb[1], axis)
                                      ELSE Opposite(BlockVal(rb[1], axis))

\* C37: a FOLLOW_LAST or REVERSE_LAST task places a wager only when its rule
\* has aligned blocks and the most recent minStreak of them share their value
\* on the task's axis; FOLLOW_LAST predicts that value, REVERSE_LAST the
\* opposite value on the same axis
FollowReverse == [][FollowReverseStep]_vars

\* a cycle in which a FOLLOW_LAST task bets on a streak that is long enough
\* and a REVERSE_LAST task on the other axis does not bet, its streak being
\* too short
FollowReverseWitness ==
    /\ last.op = "cycle"
    /\ \E i, j \in 1..Len(last.evals) :
         /\ TaskOf(last.evals[i].id).config.autoTarget = "FOLLOW_LAST"
         /\ last.evals[i].bet
         /\ TaskOf(last.evals[j].id).config.autoTarget = "REVERSE_LAST"
         /\ TaskOf(last.evals[j].id).config.targetType = "SIZE"
         /\ ~last.evals[j].bet
         /\ ~last.evals[j].deactivated


\* the confidence and the outcome an analysis gives for an axis
AxisConf(analysis, axis) == IF axis = "PARITY" THEN analysis.confP ELSE analysis.confS

AxisNext(analysis, axis) == IF axis = "PARITY" THEN analysis.nextP ELSE analysis.nextS

\* the confidence of a candidate of the full scan: 0 when the predictor does
\* not predict or names no outcome for the axis
CandidateConf(blocks, rule, axis, entropy) ==
    LET a == runAIAnalysis(blocks, rule, entropy)
    IN  IF a.shouldPredict /\ AxisNext(a, axis) # "null" THEN AxisConf(a, axis) ELSE 0

AIThresholdStep ==
    last'.op = "cycle" =>
        \A b \in NewWagers :
            LET t == tasks[TaskIndex(tasks, b.taskId)]
            IN  /\ t.config.autoTarget = "AI_PREDICTION" =>
                     \E e \in EntropyRange :
                         LET a == runAIAnalysis(allBlocks, RuleOf(t.ruleId), e)
                         IN  /\ a.shouldPredict
                             /\ AxisConf(a, b.betType) >= 92
                             /\ b.ruleId = t.ruleId
                             /\ b.prediction = AxisNext(a, b.betType)
                /\ t.config.autoTarget = "GLOBAL_AI_FULL_SCAN" =>
                     \E e \in EntropyRange :
                         LET c == CandidateConf(allBlocks, RuleOf(b.ruleId), b.betType, e)
                         IN  /\ c >= 94
                             /\ \A r \in 1..Len(Rules), axis \in BetTypes :
                                    CandidateConf(allBlocks, Rules[r], axis, e) <= c
                             /\ b.prediction =
                                    AxisNext(runAIAnalysis(allBlocks, RuleOf(b.ruleId), e), b.betType)

\* C38: an AI_PREDICTION task places a wager only if the predictor returned
\* shouldPredict and the confidence of the axis it bets on is at least 92; a
\* GLOBAL_AI_FULL_SCAN task places a wager only on a candidate whose
\* confidence is the highest over all rules and axes and is at least 94
AIThreshold == [][AIThresholdStep]_vars

\* the full scan bets on rule 2 at 95 while rule 1 offers 93, which is enough
\* for the AI_PREDICTION task on rule 1 of the same cycle
AIThresholdWitness ==
    /\ last.op = "cycle"
    /\ Len(bets) = 2
    /\ \E i, j \in 1..2 :
         /\ TaskOf(bets[i].taskId).config.autoTarget = "GLOBAL_AI_FULL_SCAN"
         /\ bets[i].ruleId = 2
         /\ CandidateConf(allBlocks, Rules[2], bets[i].betType, 10) = 95
         /\ TaskOf(bets[j].taskId).config.autoTarget = "AI_PREDICTION"
         /\ bets[j].ruleId = 1
         /\ CandidateConf(allBlocks, Rules[1], bets[j].betType, 10) = 93


\* the signal of the rule qualifies on this window: some axis has a
\* confidence of at least 92 (the confidences do not depend on the entropy)
Qualifies(blocks, rule) ==
    \E e \in EntropyRange, axis \in BetTypes :
        AxisConf(runAIAnalysis(blocks, rule, e), axis) >= 92

\* C39: the predictor is not a function of its input: when a cycle has asked
\* it about a rule whose signal qualifies, the entropy could have suppressed
\* the signal, so one draw gives shouldPredict = TRUE and another FALSE for
\* the same window and rule
EntropySuppresses ==
    last.op = "cycle" =>
        \A i \in 1..Len(last.evals) :
            LET t == TaskOf(last.evals[i].id)
            IN  (t.config.autoTarget = "AI_PREDICTION" /\ Qualifies(allBlocks, RuleOf(t.ruleId))) =>
                    \E e1, e2 \in EntropyRange :
                        /\ runAIAnalysis(allBlocks, RuleOf(t.ruleId), e1).shouldPredict
                        /\ ~runAIAnalysis(allBlocks, RuleOf(t.ruleId), e2).shouldPredict


\* C40: fetchWithRetry issues at most retries + 1 requests, whatever the
\* requests meet, and its promise settles
FetchBounded ==
    /\ [](last.op = "fetch" => Len(last.outcomes) <= last.retries + 1)
    /\ <>(last.op = "fetch" /\ last.result \in {"returned", "thrown"})

\* the default of three retries used up by a 429, an HTTP error, a network
\* failure and an API error body: four requests, then the error is thrown
FetchBoundedWitness ==
    /\ last.op = "fetch"
    /\ last.retries = 3
    /\ last.outcomes = <<"429", "http", "network", "apierror">>
    /\ last.result = "thrown"

====
